---- MODULE Spec2Model ----
(***************************************************************************)
(* Email-authentication posture analysis: the request-admission ledger     *)
(* (utils/rateLimit.js), the SPF, DKIM and MX analyzers and the aggregator *)
(* (services/*.js).  Text is modelled as sequences of one-character        *)
(* strings so that prefix, substring and split are computed, not assumed.  *)
(***************************************************************************)
EXTENDS Integers, Sequences, FiniteSets, TLC

VARIABLES
    rateLimitStore,  \* Map ip -> {count, resetTime}        (rateLimit.js:1)
    now,             \* Date.now(), ms since the module was loaded
    nextSweep,       \* when the setInterval callback is next due
    rlLast,          \* the last checkRateLimit call: key, time, return value, entry left
    rlWindow,        \* history: per key, start of the current window and calls made in it
    rlShadow,        \* history: the ledger the same calls leave when no sweep ever runs
    pc,              \* where the running operation stands
    spfRecord,       \* _analyzeSpfRecord: record
    analysisOut,     \* _analyzeSpfRecord: the analysis object returned
    op,              \* the public operation this request runs
    dns,             \* what the resolver answered to the operation's query
    probesStarted,   \* analyzeSPF: calls of spf() issued so far
    spfResults,      \* analyzeSPF: spfResults
    dkimKey,         \* analyzeDKIM: dkimKey
    results,         \* analyzeEmailSecurity: the four settling promises
    ret              \* how the operation completed: returned value or thrown error

rlVars == <<rateLimitStore, now, nextSweep, rlLast, rlWindow, rlShadow>>
recVars == <<pc, spfRecord, analysisOut>>
anVars == <<op, dns, probesStarted, spfResults, dkimKey, results, ret>>
vars == <<rlVars, recVars, anVars>>

----------------------------------------------------------------------------
(* Text: a string is a sequence of one-character strings *)

Lower ==
    [c \in {"A", "B", "C", "D", "E", "F", "G", "H", "I", "J", "K", "L", "M",
            "N", "O", "P", "Q", "R", "S", "T", "U", "V", "W", "X", "Y", "Z"} |->
        CASE c = "A" -> "a" [] c = "B" -> "b" [] c = "C" -> "c" [] c = "D" -> "d"
          [] c = "E" -> "e" [] c = "F" -> "f" [] c = "G" -> "g" [] c = "H" -> "h"
          [] c = "I" -> "i" [] c = "J" -> "j" [] c = "K" -> "k" [] c = "L" -> "l"
          [] c = "M" -> "m" [] c = "N" -> "n" [] c = "O" -> "o" [] c = "P" -> "p"
          [] c = "Q" -> "q" [] c = "R" -> "r" [] c = "S" -> "s" [] c = "T" -> "t"
          [] c = "U" -> "u" [] c = "V" -> "v" [] c = "W" -> "w" [] c = "X" -> "x"
          [] c = "Y" -> "y" [] c = "Z" -> "z"]

toLowerChar(c) == IF c \in DOMAIN Lower THEN Lower[c] ELSE c

\* String.prototype.toLowerCase
toLowerCase(s) == [i \in 1..Len(s) |-> toLowerChar(s[i])]

\* String.prototype.startsWith
startsWith(s, p) == Len(s) >= Len(p) /\ SubSeq(s, 1, Len(p)) = p

\* String.prototype.includes
includes(s, p) == \E i \in 1..(Len(s) - Len(p) + 1) : SubSeq(s, i, i + Len(p) - 1) = p

\* Array.prototype.includes
arrayIncludes(arr, x) == \E i \in 1..Len(arr) : arr[i] = x

\* index of the first character of s, from position i on, that is in cs; 0 for none
RECURSIVE indexFrom(_, _, _)
indexFrom(s, cs, i) ==
    IF i > Len(s) THEN 0
    ELSE IF s[i] \in cs THEN i
    ELSE indexFrom(s, cs, i + 1)

\* index of the first character of s, from position i on, that is not in cs
RECURSIVE indexNotFrom(_, _, _)
indexNotFrom(s, cs, i) ==
    IF i > Len(s) THEN Len(s) + 1
    ELSE IF s[i] \notin cs THEN i
    ELSE indexNotFrom(s, cs, i + 1)

\* String.prototype.split(c) for a one-character separator
RECURSIVE split(_, _)
split(s, c) ==
    LET i == indexFrom(s, {c}, 1)
    IN IF i = 0 THEN <<s>>
       ELSE <<SubSeq(s, 1, i - 1)>> \o split(SubSeq(s, i + 1, Len(s)), c)

WhiteSpace == {" ", "\t"}

\* String.prototype.split(/\s+/)
RECURSIVE splitWs(_)
splitWs(s) ==
    LET i == indexFrom(s, WhiteSpace, 1)
    IN IF i = 0 THEN <<s>>
       ELSE <<SubSeq(s, 1, i - 1)>>
            \o splitWs(SubSeq(s, indexNotFrom(s, WhiteSpace, i), Len(s)))

\* Array.prototype.join(sep)
RECURSIVE join(_, _)
join(arr, sep) ==
    IF Len(arr) = 0 THEN << >>
    ELSE IF Len(arr) = 1 THEN arr[1]
    ELSE arr[1] \o sep \o join(Tail(arr), sep)

\* a warning or recommendation: its text as written in the source, with the
\* number or the string a template of the source interpolates
Msg(text) == [text |-> text, n |-> 0, s |-> << >>]
MsgN(text, n) == [text |-> text, n |-> n, s |-> << >>]
MsgS(text, str) == [text |-> text, n |-> 0, s |-> str]

(* String literals of the SPF analyzer *)

SpfText ==
    [ vspf1 |-> \* v=spf1
          <<"v", "=", "s", "p", "f", "1">>,
      all |-> \* all
          <<"a", "l", "l">>,
      plus_all |-> \* +all
          <<"+", "a", "l", "l">>,
      q_all |-> \* ?all
          <<"?", "a", "l", "l">>,
      tilde_all |-> \* ~all
          <<"~", "a", "l", "l">>,
      minus_all |-> \* -all
          <<"-", "a", "l", "l">>,
      include |-> \* include
          <<"i", "n", "c", "l", "u", "d", "e">>,
      a |-> \* a
          <<"a">>,
      mx |-> \* mx
          <<"m", "x">>,
      exists |-> \* exists
          <<"e", "x", "i", "s", "t", "s">>,
      redirect |-> \* redirect
          <<"r", "e", "d", "i", "r", "e", "c", "t">>,
      ptr |-> \* ptr
          <<"p", "t", "r">>,
      include_colon |-> \* include:
          <<"i", "n", "c", "l", "u", "d", "e", ":">>,
      no_policy |-> \* No policy specified
          <<"N", "o", " ", "p", "o", "l", "i", "c", "y", " ", "s", "p", "e", "c", "i", "f", "i", "e", "d">>,
      bar |-> \*  | 
          <<" ", "|", " ">> ]

----------------------------------------------------------------------------
(* Bounds of the model *)

MaxJitter == 1
MaxCallsPerWindow == 11
MaxRepeat == 11
MaxTail == 2
MaxTxt == 2
MaxMx == 3

----------------------------------------------------------------------------
(* utils/rateLimit.js *)

limit == 10
window == 60000
sweepInterval == 300000

None == "<undefined>"

\* req.ip || req.connection?.remoteAddress || req.socket?.remoteAddress || 'unknown'
clientIp(req) ==
    IF req.ip # None THEN req.ip
    ELSE IF req.connection # None THEN req.connection
    ELSE IF req.socket # None THEN req.socket
    ELSE "unknown"

Requests ==
    { [ip |-> "10.0.0.1", connection |-> None, socket |-> None],
      [ip |-> None, connection |-> "10.0.0.1", socket |-> None],
      [ip |-> None, connection |-> None, socket |-> "10.0.0.1"],
      [ip |-> None, connection |-> None, socket |-> None] }

Keys == { clientIp(r) : r \in Requests }

\* the instants at which the model samples Date.now(): the start and the end of
\* the first window, and the window before and the instant of the first sweep,
\* each with the milliseconds that follow it
Instants ==
    { base + j : base \in {0, window, sweepInterval - window, sweepInterval},
                 j \in 0..MaxJitter }

\* checkRateLimit with `>=` for `>` in the expiry test
checkRateLimitEarlyReset(store, ip, t) ==
    IF ip \notin DOMAIN store
    THEN [store |-> [k \in DOMAIN store \cup {ip} |->
                        IF k = ip THEN [count |-> 1, resetTime |-> t + window] ELSE store[k]],
          ret |-> [allowed |-> TRUE, remaining |-> limit - 1]]
    ELSE IF t >= store[ip].resetTime
    THEN [store |-> [store EXCEPT ![ip] = [count |-> 1, resetTime |-> t + window]],
          ret |-> [allowed |-> TRUE, remaining |-> limit - 1]]
    ELSE IF store[ip].count >= limit
    THEN [store |-> store,
          ret |-> [allowed |-> FALSE,
                   error |-> "Too many requests. Please try again later.",
                   resetTime |-> store[ip].resetTime]]
    ELSE [store |-> [store EXCEPT ![ip].count = @ + 1],
          ret |-> [allowed |-> TRUE, remaining |-> limit - (store[ip].count + 1)]]

\* checkRateLimit counting the denied calls too
checkRateLimitCountsDenied(store, ip, t) ==
    IF ip \notin DOMAIN store
    THEN [store |-> [k \in DOMAIN store \cup {ip} |->
                        IF k = ip THEN [count |-> 1, resetTime |-> t + window] ELSE store[k]],
          ret |-> [allowed |-> TRUE, remaining |-> limit - 1]]
    ELSE IF t > store[ip].resetTime
    THEN [store |-> [store EXCEPT ![ip] = [count |-> 1, resetTime |-> t + window]],
          ret |-> [allowed |-> TRUE, remaining |-> limit - 1]]
    ELSE IF store[ip].count >= limit
    THEN [store |-> [store EXCEPT ![ip].count = @ + 1],
          ret |-> [allowed |-> FALSE,
                   error |-> "Too many requests. Please try again later.",
                   resetTime |-> store[ip].resetTime]]
    ELSE [store |-> [store EXCEPT ![ip].count = @ + 1],
          ret |-> [allowed |-> TRUE, remaining |-> limit - (store[ip].count + 1)]]

\* checkRateLimit(req), as a function of the ledger, the key and Date.now()
checkRateLimit(store, ip, t) ==
    IF ip \notin DOMAIN store
    THEN [store |-> [k \in DOMAIN store \cup {ip} |->
                        IF k = ip THEN [count |-> 1, resetTime |-> t + window] ELSE store[k]],
          ret |-> [allowed |-> TRUE, remaining |-> limit - 1]]
    ELSE IF t > store[ip].resetTime
    THEN [store |-> [store EXCEPT ![ip] = [count |-> 1, resetTime |-> t + window]],
          ret |-> [allowed |-> TRUE, remaining |-> limit - 1]]
    ELSE IF store[ip].count >= limit
    THEN [store |-> store,
          ret |-> [allowed |-> FALSE,
                   error |-> "Too many requests. Please try again later.",
                   resetTime |-> store[ip].resetTime]]
    ELSE [store |-> [store EXCEPT ![ip].count = @ + 1],
          ret |-> [allowed |-> TRUE, remaining |-> limit - (store[ip].count + 1)]]

\* sweep with the comparison turned round: it deletes the entries still in their window
sweepUnexpired(store, t) ==
    [k \in { ip \in DOMAIN store : ~(t < store[ip].resetTime) } |-> store[k]]

\* the setInterval callback: delete every entry with now > resetTime
sweep(store, t) ==
    [k \in { ip \in DOMAIN store : ~(t > store[ip].resetTime) } |-> store[k]]

\* history of the windows, kept from the calls alone: a key's window starts at
\* its first call and at its first call made after the window has elapsed
windowAfterCall(w, t) ==
    IF w.calls = 0 \/ t > w.start + window
    THEN [start |-> t, calls |-> 1]
    ELSE [start |-> w.start, calls |-> w.calls + 1]

RlInit ==
    /\ rateLimitStore = << >>
    /\ now = 0
    /\ nextSweep = sweepInterval
    /\ rlLast = [ip |-> None, at |-> 0, ret |-> [allowed |-> TRUE, remaining |-> 0],
                 entry |-> [count |-> 0, resetTime |-> 0],
                 plain |-> [allowed |-> TRUE, remaining |-> 0]]
    /\ rlWindow = [k \in Keys |-> [start |-> 0, calls |-> 0]]
    /\ rlShadow = << >>
    /\ pc = "idle" /\ spfRecord = << >> /\ analysisOut = None
    /\ op = "checkRateLimit" /\ dns = None /\ probesStarted = 0 /\ spfResults = << >>
    /\ dkimKey = << >> /\ results = << >> /\ ret = [kind |-> "pending"]

CheckRateLimit(req) ==
    LET ip == clientIp(req)
        r == checkRateLimit(rateLimitStore, ip, now)
        w == windowAfterCall(rlWindow[ip], now)
        plain == checkRateLimit(rlShadow, ip, now)
    IN /\ w.calls <= MaxCallsPerWindow
       /\ rateLimitStore' = r.store
       /\ rlLast' = [ip |-> ip, at |-> now, ret |-> r.ret, entry |-> r.store[ip],
                     plain |-> plain.ret]
       /\ rlWindow' = [rlWindow EXCEPT ![ip] = w]
       /\ rlShadow' = plain.store
       /\ UNCHANGED <<now, nextSweep, recVars, anVars>>

Sweep ==
    /\ now >= nextSweep
    /\ rateLimitStore' = sweep(rateLimitStore, now)
    /\ nextSweep' = now + sweepInterval
    /\ UNCHANGED <<now, rlLast, rlWindow, rlShadow, recVars, anVars>>

Tick ==
    /\ \E t \in Instants : t > now /\ now' = t
    /\ UNCHANGED <<rateLimitStore, nextSweep, rlLast, rlWindow, rlShadow, recVars, anVars>>

RlNext ==
    \/ \E req \in Requests : CheckRateLimit(req)
    \/ Sweep
    \/ Tick

SpecRateLimit == RlInit /\ [][RlNext]_vars

----------------------------------------------------------------------------
\* C1: for one caller address, the first 10 calls of a window are admitted,
\* every further call in that window is denied and carries the window's
\* resetTime, and the first call after the window has elapsed is admitted
\* and starts a fresh window with count 1.
C1_WindowAdmission ==
    rlLast.ip # None =>
        LET w == rlWindow[rlLast.ip]
        IN /\ w.calls <= limit => rlLast.ret.allowed
           /\ w.calls > limit =>
                 /\ ~rlLast.ret.allowed
                 /\ rlLast.ret.resetTime = w.start + window
           /\ w.calls = 1 =>
                 /\ rlLast.ret.allowed
                 /\ rlLast.ret.remaining = limit - 1
                 /\ rlLast.entry = [count |-> 1, resetTime |-> rlLast.at + window]

\* an 11th call of a window was denied at the window's last instant, and a later
\* state has the same address admitted again in a fresh window
C1_Witness ==
    /\ rlLast.ip = "10.0.0.1"
    /\ rlWindow["10.0.0.1"].calls = limit + 1
    /\ ~rlLast.ret.allowed
    /\ rlLast.at = rlWindow["10.0.0.1"].start + window
    /\ rlWindow["10.0.0.1"].start > 0

----------------------------------------------------------------------------
(* services/spfService.js: _analyzeSpfRecord *)

\* mechanisms.find((m) => m.toLowerCase().includes("all")): its index from i on,
\* 0 for undefined
RECURSIVE findPolicyFrom(_, _)
findPolicyFrom(mechanisms, i) ==
    IF i > Len(mechanisms) THEN 0
    ELSE IF includes(toLowerCase(mechanisms[i]), SpfText.all) THEN i
    ELSE findPolicyFrom(mechanisms, i + 1)

findPolicy(mechanisms) == findPolicyFrom(mechanisms, 1)

W_NoAll == Msg("Record does not contain a terminating \"all\" mechanism.")
R_Redirect(target) == MsgS("Redirect to ${redirectDomain} detected. Ensure the target domain has a valid SPF record.", target)
W_Ptr == Msg("The \"ptr\" mechanism is deprecated and should not be used (RFC 7208).")
R_Ptr == Msg("Remove the \"ptr\" mechanism. Use \"a\", \"mx\", or \"ip4/ip6\" instead.")
R_BareMx == Msg("Using bare \"mx\" mechanism. Consider specifying MX records explicitly for better performance.")
R_BareA == Msg("Using bare \"a\" mechanism. Consider specifying A records explicitly for better performance.")
W_FatalLookups(n) == MsgN("Fatal: Exceeded 10 DNS lookup limit. Found ${analysis.lookups} lookups (RFC 7208).", n)
R_ReduceLookups == Msg("Reduce DNS lookups by: 1) Flattening SPF records, 2) Using IP ranges instead of includes, 3) Consolidating mechanisms.")
W_ApproachingLimit(n) == MsgN("Approaching DNS lookup limit: ${analysis.lookups}/10 lookups used.", n)
R_ApproachingLimit == Msg("Consider optimizing your SPF record to reduce DNS lookups before hitting the limit.")
R_MonitorLookups(n) == MsgN("Currently using ${analysis.lookups}/10 DNS lookups. Monitor this as you add more mechanisms.", n)
W_TooLong == Msg("SPF record exceeds 255 characters. This may cause DNS issues.")
W_IncludeLoop == Msg("Potential SPF include loop detected (domain includes itself).")

\* lines 177-224: the analysis object and the policy mechanism
spfPolicy(mechanisms) ==
    LET i == findPolicy(mechanisms)
        policyLower == toLowerCase(mechanisms[i])
        analysis == [lookups |-> 0, warnings |-> << >>, recommendations |-> << >>,
                     policy |-> IF i = 0 THEN SpfText.no_policy ELSE mechanisms[i],
                     mechanisms |-> << >>]
    IN IF i = 0
       THEN [analysis EXCEPT !.warnings = <<W_NoAll>>, !.recommendations = <<Msg("Add \"-all\" (fail), \"~all\" (softfail), or \"?all\" (neutral) to specify a default policy.")>>]
       ELSE IF policyLower = SpfText.plus_all
       THEN [analysis EXCEPT !.warnings = <<Msg("The \"+all\" mechanism is highly discouraged as it allows any server to send email.")>>, !.recommendations = <<Msg("Replace \"+all\" with \"-all\" for strict policy or \"~all\" for gradual deployment.")>>]
       ELSE IF policyLower = SpfText.q_all
       THEN [analysis EXCEPT !.warnings = <<Msg("Neutral policy \"?all\" provides no protection against spoofing.")>>, !.recommendations = <<Msg("Consider using \"~all\" (softfail) or \"-all\" (fail) for better security.")>>]
       ELSE IF policyLower = SpfText.tilde_all
       THEN [analysis EXCEPT !.recommendations = <<Msg("Good: Using \"~all\" allows gradual SPF deployment. Consider \"-all\" for stricter security once confident.")>>]
       ELSE IF policyLower = SpfText.minus_all
       THEN [analysis EXCEPT !.recommendations = <<Msg("Excellent: Using \"-all\" provides the strongest SPF protection.")>>]
       ELSE analysis

\* mechLower.split(":")[0].split("/")[0].split("=")[0]
mechanismType(mechanism) ==
    split(split(split(toLowerCase(mechanism), ":")[1], "/")[1], "=")[1]

CountedTypes == {SpfText.include, SpfText.a, SpfText.mx, SpfText.exists}
RequiresLookupTypes == {SpfText.include, SpfText.a, SpfText.mx, SpfText.exists, SpfText.redirect}

\* spfMechanism without the lookup counted for redirect
spfMechanismRedirectFree(analysis, mechanism) ==
    LET type == mechanismType(mechanism)
        a1 == [analysis EXCEPT !.mechanisms =
                  Append(@, [original |-> mechanism, type |-> type,
                             requiresLookup |-> type \in RequiresLookupTypes])]
        a2 == IF type \in CountedTypes THEN [a1 EXCEPT !.lookups = @ + 1] ELSE a1
        parts == split(mechanism, "=")
        a3 == IF type = SpfText.redirect /\ Len(parts) >= 2 /\ parts[2] # << >>
              THEN [a2 EXCEPT !.recommendations = Append(@, R_Redirect(parts[2]))]
              ELSE a2
        a4 == IF type = SpfText.ptr
              THEN [a3 EXCEPT !.warnings = Append(@, W_Ptr),
                              !.recommendations = Append(@, R_Ptr)]
              ELSE a3
        a5 == IF type = SpfText.mx /\ ~includes(mechanism, <<":">>)
              THEN [a4 EXCEPT !.recommendations = Append(@, R_BareMx)]
              ELSE a4
    IN IF type = SpfText.a /\ ~includes(mechanism, <<":">>)
       THEN [a5 EXCEPT !.recommendations = Append(@, R_BareA)]
       ELSE a5

\* lines 227-277: one iteration of the loop over the mechanisms
spfMechanism(analysis, mechanism) ==
    LET type == mechanismType(mechanism)
        a1 == [analysis EXCEPT !.mechanisms =
                  Append(@, [original |-> mechanism, type |-> type,
                             requiresLookup |-> type \in RequiresLookupTypes])]
        a2 == IF type \in CountedTypes THEN [a1 EXCEPT !.lookups = @ + 1] ELSE a1
        parts == split(mechanism, "=")
        a3 == IF type = SpfText.redirect
              THEN IF Len(parts) >= 2 /\ parts[2] # << >>
                   THEN [a2 EXCEPT !.lookups = @ + 1,
                                   !.recommendations = Append(@, R_Redirect(parts[2]))]
                   ELSE [a2 EXCEPT !.lookups = @ + 1]
              ELSE a2
        a4 == IF type = SpfText.ptr
              THEN [a3 EXCEPT !.warnings = Append(@, W_Ptr),
                              !.recommendations = Append(@, R_Ptr)]
              ELSE a3
        a5 == IF type = SpfText.mx /\ ~includes(mechanism, <<":">>)
              THEN [a4 EXCEPT !.recommendations = Append(@, R_BareMx)]
              ELSE a4
    IN IF type = SpfText.a /\ ~includes(mechanism, <<":">>)
       THEN [a5 EXCEPT !.recommendations = Append(@, R_BareA)]
       ELSE a5

\* for (const mechanism of mechanisms) { ... }
RECURSIVE spfMechanisms(_, _)
spfMechanisms(analysis, mechanisms) ==
    IF Len(mechanisms) = 0 THEN analysis
    ELSE spfMechanisms(spfMechanism(analysis, mechanisms[1]), Tail(mechanisms))

\* spfLookupLimit with push for unshift
spfLookupLimitPush(analysis) ==
    IF analysis.lookups > 10
    THEN [analysis EXCEPT !.warnings = Append(@, W_FatalLookups(analysis.lookups)),
                          !.recommendations = Append(@, R_ReduceLookups)]
    ELSE IF analysis.lookups > 8
    THEN [analysis EXCEPT !.warnings = Append(@, W_ApproachingLimit(analysis.lookups)),
                          !.recommendations = Append(@, R_ApproachingLimit)]
    ELSE IF analysis.lookups > 5
    THEN [analysis EXCEPT !.recommendations = Append(@, R_MonitorLookups(analysis.lookups))]
    ELSE analysis

\* lines 279-298: DNS lookup limit analysis
spfLookupLimit(analysis) ==
    IF analysis.lookups > 10
    THEN [analysis EXCEPT !.warnings = <<W_FatalLookups(analysis.lookups)>> \o @,
                          !.recommendations = <<R_ReduceLookups>> \o @]
    ELSE IF analysis.lookups > 8
    THEN [analysis EXCEPT !.warnings = Append(@, W_ApproachingLimit(analysis.lookups)),
                          !.recommendations = Append(@, R_ApproachingLimit)]
    ELSE IF analysis.lookups > 5
    THEN [analysis EXCEPT !.recommendations = Append(@, R_MonitorLookups(analysis.lookups))]
    ELSE analysis

\* lines 300-308: record length analysis
spfRecordLength(analysis, record) ==
    IF Len(record) > 255
    THEN [analysis EXCEPT !.warnings = Append(@, W_TooLong),
                          !.recommendations = Append(@, Msg("Shorten your SPF record by using shorter domain names or consolidating mechanisms."))]
    ELSE analysis

\* lines 310-322: include loops
spfIncludeLoop(analysis, mechanisms, domain) ==
    IF \E i \in 1..Len(mechanisms) :
           /\ startsWith(toLowerCase(mechanisms[i]), SpfText.include_colon)
           /\ split(mechanisms[i], ":")[2] = domain
    THEN [analysis EXCEPT !.warnings = Append(@, W_IncludeLoop),
                          !.recommendations = Append(@, Msg("Remove self-referential includes to prevent infinite loops."))]
    ELSE analysis

\* _analyzeSpfRecord(record, domain)
analyzeSpfRecord(record, domain) ==
    LET mechanisms == Tail(splitWs(record))
    IN spfIncludeLoop(
           spfRecordLength(
               spfLookupLimit(spfMechanisms(spfPolicy(mechanisms), mechanisms)),
               record),
           mechanisms, domain)

----------------------------------------------------------------------------
(* _analyzeSpfRecord over a bounded set of records *)

Domain == <<"e", "x", ".", "c", "o", "m">>  \* ex.com

Token ==
    [ include |-> \* include:_spf.example.com
          <<"i", "n", "c", "l", "u", "d", "e", ":", "_", "s", "p", "f", ".", "e", "x", "a", "m", "p", "l", "e", ".", "c", "o", "m">>,
      include_other |-> \* include:_spf.other.com
          <<"i", "n", "c", "l", "u", "d", "e", ":", "_", "s", "p", "f", ".", "o", "t", "h", "e", "r", ".", "c", "o", "m">>,
      include_self |-> \* include:ex.com
          <<"i", "n", "c", "l", "u", "d", "e", ":", "e", "x", ".", "c", "o", "m">>,
      a |-> \* a
          <<"a">>,
      a_host |-> \* a:h
          <<"a", ":", "h">>,
      MX |-> \* MX
          <<"M", "X">>,
      mx_host |-> \* mx:m
          <<"m", "x", ":", "m">>,
      exists |-> \* exists:e
          <<"e", "x", "i", "s", "t", "s", ":", "e">>,
      redirect |-> \* redirect=r.org
          <<"r", "e", "d", "i", "r", "e", "c", "t", "=", "r", ".", "o", "r", "g">>,
      ptr |-> \* ptr
          <<"p", "t", "r">>,
      ip4 |-> \* ip4:1.2.3.0/24
          <<"i", "p", "4", ":", "1", ".", "2", ".", "3", ".", "0", "/", "2", "4">>,
      tilde_all |-> \* ~all
          <<"~", "a", "l", "l">>,
      minus_all |-> \* -all
          <<"-", "a", "l", "l">>,
      plus_all |-> \* +all
          <<"+", "a", "l", "l">>,
      q_all |-> \* ?all
          <<"?", "a", "l", "l">>,
      bare_all |-> \* all
          <<"a", "l", "l">>,
      include_mall |-> \* include:mall.org
          <<"i", "n", "c", "l", "u", "d", "e", ":", "m", "a", "l", "l", ".", "o", "r", "g">>,
      a_prefix |-> \* a/24
          <<"a", "/", "2", "4">> ]

TailTokens ==
    {Token.include_self, Token.a, Token.MX, Token.redirect, Token.ptr, Token.ip4,
     Token.tilde_all, Token.minus_all, Token.plus_all, Token.include_mall}

\* k copies of tok
RECURSIVE repeat(_, _)
repeat(tok, k) == IF k = 0 THEN << >> ELSE <<tok>> \o repeat(tok, k - 1)

\* the sequences over S of length at most n
RECURSIVE seqsUpTo(_, _)
seqsUpTo(S, n) ==
    IF n = 0 THEN {<< >>}
    ELSE LET shorter == seqsUpTo(S, n - 1)
         IN shorter \cup { Append(q, t) : q \in { r \in shorter : Len(r) = n - 1 }, t \in S }

\* the text of a record: v=spf1 and the mechanisms, separated by single spaces
recordText(mechanisms) == join(<<SpfText.vspf1>> \o mechanisms, <<" ">>)

\* records with irregular spacing and case, a glued first token, a bare and an
\* upper-case all, a redirect without target, and mechanisms ahead of the includes
OddRecords ==
    { SpfText.vspf1,
      SpfText.vspf1 \o <<" ", " ">> \o Token.a \o <<" ", "\t">> \o Token.MX \o <<" ">> \o Token.minus_all \o <<" ">>,
      SpfText.vspf1 \o Token.include \o <<" ">> \o Token.tilde_all,
      <<"V", "=", "S", "P", "F", "1", " ">> \o <<"I", "N", "C", "L", "U", "D", "E", ":", "x">> \o <<" ", "-", "A", "L", "L">>,
      recordText(<<Token.a_host, Token.mx_host, SpfText.redirect, Token.bare_all>>),
      recordText(<<Token.exists, Token.a_prefix, Token.q_all>>),
      recordText(<<Token.include, Token.include_other, Token.tilde_all>>),
      recordText(repeat(Token.exists, 6) \o <<Token.q_all, Token.minus_all>>),
      recordText(repeat(Token.a_prefix, 9) \o <<Token.ptr, Token.q_all>>),
      recordText(<<Token.ptr, Token.plus_all>> \o repeat(Token.include, 11)),
      recordText(<<Token.include_self, Token.ptr>> \o repeat(Token.mx_host, 9) \o <<Token.redirect, Token.redirect>>) }

\* v=spf1, then up to MaxRepeat includes, then up to MaxTail further mechanisms
SpfRecordInputs ==
    OddRecords \cup
    { recordText(repeat(Token.include, k) \o tail) :
        k \in 0..MaxRepeat, tail \in seqsUpTo(TailTokens, MaxTail) }

RecInit ==
    /\ pc = "start"
    /\ spfRecord \in SpfRecordInputs
    /\ analysisOut = None
    /\ rateLimitStore = << >> /\ now = 0 /\ nextSweep = sweepInterval
    /\ rlLast = [ip |-> None] /\ rlWindow = << >> /\ rlShadow = << >>
    /\ op = "_analyzeSpfRecord" /\ dns = None /\ probesStarted = 0 /\ spfResults = << >>
    /\ dkimKey = << >> /\ results = << >> /\ ret = [kind |-> "pending"]

AnalyzeSpfRecord ==
    /\ pc = "start"
    /\ analysisOut' = analyzeSpfRecord(spfRecord, Domain)
    /\ pc' = "done"
    /\ UNCHANGED <<spfRecord, rlVars, anVars>>

RecNext == AnalyzeSpfRecord

SpecSpfRecord == RecInit /\ [][RecNext]_vars

----------------------------------------------------------------------------
\* C7: when the lookup count exceeds 10 the first warning is the "Fatal:" one
\* and the first recommendation the "Reduce DNS lookups" one, whatever else the
\* record triggers; the three lookup-budget messages exclude one another and
\* follow the ranges >10, 9-10, 6-8.
C7_FatalFirst ==
    pc = "done" =>
        LET n == analysisOut.lookups
            fatal == \E i \in DOMAIN analysisOut.warnings :
                         analysisOut.warnings[i] = W_FatalLookups(n)
            approaching == \E i \in DOMAIN analysisOut.warnings :
                               analysisOut.warnings[i] = W_ApproachingLimit(n)
            monitor == \E i \in DOMAIN analysisOut.recommendations :
                           analysisOut.recommendations[i] = R_MonitorLookups(n)
        IN /\ n > 10 =>
                 /\ analysisOut.warnings[1] = W_FatalLookups(n)
                 /\ analysisOut.recommendations[1] = R_ReduceLookups
           /\ fatal <=> n > 10
           /\ approaching <=> n \in 9..10
           /\ monitor <=> n \in 6..8
           /\ ~(fatal /\ approaching) /\ ~(fatal /\ monitor) /\ ~(approaching /\ monitor)

\* more than 10 lookups in a record that also draws the policy, ptr, length and
\* self-include warnings
C7_Witness ==
    /\ pc = "done"
    /\ analysisOut.lookups > 10
    /\ \E i \in DOMAIN analysisOut.warnings : analysisOut.warnings[i] = W_Ptr
    /\ \E i \in DOMAIN analysisOut.warnings : analysisOut.warnings[i] = W_TooLong
    /\ \E i \in DOMAIN analysisOut.warnings : analysisOut.warnings[i] = W_IncludeLoop
    /\ \E i \in DOMAIN analysisOut.warnings : analysisOut.warnings[i] = W_NoAll

\* the type of a mechanism as the claim words it: the lowercased text before the
\* first of ':', '/', '='
C8_Type(mechanism) ==
    LET lower == toLowerCase(mechanism)
        i == indexFrom(lower, {":", "/", "="}, 1)
    IN IF i = 0 THEN lower ELSE SubSeq(lower, 1, i - 1)

\* C8: lookups is the number of mechanisms (tokens after v=spf1) whose type is
\* include, a, mx, exists or redirect, each counted once, which is also the
\* number of reported mechanisms with requiresLookup = true; the record
\* "v=spf1 include:_spf.example.com include:_spf.other.com ~all" has lookups 2
\* and policy ~all.
C8_LookupCount ==
    pc = "done" =>
        LET tokens == Tail(splitWs(spfRecord))
        IN /\ analysisOut.lookups =
                 Cardinality({ i \in 1..Len(tokens) :
                     C8_Type(tokens[i]) \in {SpfText.include, SpfText.a, SpfText.mx, SpfText.exists, SpfText.redirect} })
           /\ analysisOut.lookups =
                 Cardinality({ i \in DOMAIN analysisOut.mechanisms :
                     analysisOut.mechanisms[i].requiresLookup })
           /\ spfRecord = recordText(<<Token.include, Token.include_other, Token.tilde_all>>) =>
                 analysisOut.lookups = 2 /\ analysisOut.policy = SpfText.tilde_all

\* a record whose lookups come from an include, an upper-case MX and a redirect
C8_Witness ==
    /\ pc = "done"
    /\ spfRecord = recordText(<<Token.include, Token.MX, Token.redirect>>)
    /\ analysisOut.lookups = 3

----------------------------------------------------------------------------
(* services/spfService.js: analyzeSPF *)

\* how an async function completes
Return(value) == [kind |-> "return", value |-> value]
Throw(error) == [kind |-> "throw", error |-> error]

\* a resolver answer: the records, or an error with its code and message
Answer(records) == [code |-> None, message |-> None, records |-> records]
DnsError(code, message) == [code |-> code, message |-> message, records |-> << >>]

ErrMessage ==
    [ ENODATA |-> \* queryTxt ENODATA
          <<"q", "u", "e", "r", "y", "T", "x", "t", " ", "E", "N", "O", "D", "A", "T", "A">>,
      ENOTFOUND |-> \* queryTxt ENOTFOUND
          <<"q", "u", "e", "r", "y", "T", "x", "t", " ", "E", "N", "O", "T", "F", "O", "U", "N", "D">>,
      ETIMEOUT |-> \* queryTxt ETIMEOUT
          <<"q", "u", "e", "r", "y", "T", "x", "t", " ", "E", "T", "I", "M", "E", "O", "U", "T">>,
      MxENODATA |-> \* queryMx ENODATA
          <<"q", "u", "e", "r", "y", "M", "x", " ", "E", "N", "O", "D", "A", "T", "A">>,
      MxETIMEOUT |-> \* queryMx ETIMEOUT
          <<"q", "u", "e", "r", "y", "M", "x", " ", "E", "T", "I", "M", "E", "O", "U", "T">>,
      Dmarc |-> \* queryTxt ESERVFAIL _dmarc.ex.com
          <<"q", "u", "e", "r", "y", "T", "x", "t", " ", "E", "S", "E", "R", "V", "F", "A", "I", "L", " ", "_", "d", "m", "a", "r", "c", ".", "e", "x", ".", "c", "o", "m">>,
      Task |-> \* Cannot read properties of undefined
          <<"C", "a", "n", "n", "o", "t", " ", "r", "e", "a", "d", " ", "p", "r", "o", "p", "e", "r", "t", "i", "e", "s", " ", "o", "f", " ", "u", "n", "d", "e", "f", "i", "n", "e", "d">> ]

DnsErrors ==
    { DnsError("ENODATA", ErrMessage.ENODATA), DnsError("ENOTFOUND", ErrMessage.ENOTFOUND),
      DnsError("ETIMEOUT", ErrMessage.ETIMEOUT) }

ErrorText ==
    [ NoSpfRecord |-> \* No SPF record found.
          <<"N", "o", " ", "S", "P", "F", " ", "r", "e", "c", "o", "r", "d", " ", "f", "o", "u", "n", "d", ".">>,
      MultipleSpf |-> \* Fatal: Multiple SPF records found.
          <<"F", "a", "t", "a", "l", ":", " ", "M", "u", "l", "t", "i", "p", "l", "e", " ", "S", "P", "F", " ", "r", "e", "c", "o", "r", "d", "s", " ", "f", "o", "u", "n", "d", ".">>,
      DkimNotFound |-> \* DKIM record not found for selector '
          <<"D", "K", "I", "M", " ", "r", "e", "c", "o", "r", "d", " ", "n", "o", "t", " ", "f", "o", "u", "n", "d", " ", "f", "o", "r", " ", "s", "e", "l", "e", "c", "t", "o", "r", " ", "'">>,
      NoMx |-> \* No MX records found
          <<"N", "o", " ", "M", "X", " ", "r", "e", "c", "o", "r", "d", "s", " ", "f", "o", "u", "n", "d">>,
      NoDmarc |-> \* No DMARC record found
          <<"N", "o", " ", "D", "M", "A", "R", "C", " ", "r", "e", "c", "o", "r", "d", " ", "f", "o", "u", "n", "d">> ]


\* lines 36-45 and 57-66
spfNotFound(domain) ==
    [success |-> FALSE, error |-> ErrorText.NoSpfRecord, domain |-> domain,
     recommendations |-> <<Msg("Create a TXT record for your domain starting with \"v=spf1\"."), Msg("Example: \"v=spf1 include:_spf.google.com ~all\""), Msg("Test your SPF record before deploying to production.")>>]

\* lines 70-84
spfMultiple(domain, spfRecords) ==
    [success |-> FALSE, error |-> ErrorText.MultipleSpf, domain |-> domain,
     rawRecord |-> join(spfRecords, SpfText.bar),
     recommendations |-> <<Msg("A domain MUST NOT have multiple SPF records as per RFC 7208."), Msg("Merge all mechanisms into a single \"v=spf1\" record."), Msg("Remove duplicate or conflicting SPF records immediately.")>>,
     warnings |-> <<Msg("Multiple SPF records will cause authentication failures."), Msg("Email delivery may be severely impacted.")>>]

\* the outer handler leaving the error to the caller
spfCatchRethrow(error, domain) == Throw(error)

\* lines 158-169: the outer catch
spfCatch(error, domain) ==
    Return([success |-> FALSE, error |-> error.message, domain |-> domain,
            recommendations |-> <<Msg("Check your DNS configuration."), Msg("Ensure your domain is properly configured."), Msg("Try again in a few minutes if this is a temporary DNS issue.")>>])

\* txtRecords.map((entry) => entry.join(""))
flatten(txtRecords) == [i \in 1..Len(txtRecords) |-> join(txtRecords[i], << >>)]

isSpfRecord(txt) == startsWith(toLowerCase(txt), SpfText.vspf1)

\* spfSelect keeping the records that contain v=spf1 anywhere, in the case written
spfSelectAnywhere(flatRecords) ==
    LET has(txt) == includes(txt, SpfText.vspf1) IN SelectSeq(flatRecords, has)

\* flatRecords.filter((txt) => txt.toLowerCase().startsWith("v=spf1"))
spfSelect(flatRecords) == SelectSeq(flatRecords, isSpfRecord)

\* lines 29-87: from the call to the first probe, or to an early return
spfResolved(answer, domain) ==
    IF answer.code \in {"ENODATA", "ENOTFOUND"}
    THEN [pc |-> "done", ret |-> Return(spfNotFound(domain)), spfRecord |-> << >>]
    ELSE IF answer.code # None
    THEN [pc |-> "done", ret |-> spfCatch(answer, domain), spfRecord |-> << >>]
    ELSE LET spfRecords == spfSelect(flatten(answer.records))
         IN IF Len(spfRecords) = 0
            THEN [pc |-> "done", ret |-> Return(spfNotFound(domain)), spfRecord |-> << >>]
            ELSE IF Len(spfRecords) > 1
            THEN [pc |-> "done", ret |-> Return(spfMultiple(domain, spfRecords)),
                  spfRecord |-> << >>]
            ELSE [pc |-> "probe", ret |-> [kind |-> "pending"], spfRecord |-> spfRecords[1]]

testIPs == <<"8.8.8.8", "1.1.1.1", "208.67.222.222", "64.233.160.1">>

\* what one call of mailauth's spf() comes to: a result object (held as a
\* one-element tuple), or a thrown error
Fulfilled(value) == [threw |-> FALSE, value |-> <<value>>, message |-> << >>]
Rejected(message) == [threw |-> TRUE, value |-> << >>, message |-> message]

ProbeOutcomes ==
    { Fulfilled([status |-> "pass", comment |-> "sender is authorized", explanation |-> None]),
      Fulfilled([status |-> "softfail", comment |-> None, explanation |-> "sender is not authorized"]),
      Rejected(ErrMessage.ETIMEOUT) }

\* an object-valued field that may be null: the empty tuple, or the object alone
Null == << >>
Some(x) == <<x>>

\* a || b
orElse(a, b) == IF a # None THEN a ELSE b

\* spfProbeEntry letting the failure of a probe replace the entries collected so far
spfProbeEntryReset(spfResultsSoFar, testIP, outcome) ==
    IF outcome.threw
    THEN <<[ip |-> testIP, result |-> "error",
            explanation |-> <<"Error testing with IP ${testIP}: ${error.message}",
                              testIP, outcome.message>>,
            details |-> Null]>>
    ELSE Append(spfResultsSoFar,
                [ip |-> testIP, result |-> outcome.value[1].status,
                 explanation |-> <<orElse(outcome.value[1].comment, outcome.value[1].explanation)>>,
                 details |-> outcome.value])

\* lines 99-121: the body of the loop over testIPs, once spf() has settled
spfProbeEntry(spfResultsSoFar, testIP, outcome) ==
    IF outcome.threw
    THEN Append(spfResultsSoFar,
                [ip |-> testIP, result |-> "error",
                 explanation |-> <<"Error testing with IP ${testIP}: ${error.message}",
                                   testIP, outcome.message>>,
                 details |-> Null])
    ELSE Append(spfResultsSoFar,
                [ip |-> testIP, result |-> outcome.value[1].status,
                 explanation |-> <<orElse(outcome.value[1].comment, outcome.value[1].explanation)>>,
                 details |-> outcome.value])

\* lines 125-127: spfResults.find((r) => r.details && r.result !== "error")?.details
primaryResultOf(entries) ==
    LET ok(r) == r.details # Null /\ r.result # "error"
        found == SelectSeq(entries, ok)
    IN IF Len(found) = 0 THEN Null ELSE found[1].details

\* lines 133-157: the report of a completed analysis
spfSuccess(domain, record, entries) ==
    LET primaryResult == primaryResultOf(entries)
        analysis == analyzeSpfRecord(record, domain)
    IN [success |-> TRUE, domain |-> domain, rawRecord |-> record,
        lookups |-> analysis.lookups, policy |-> analysis.policy,
        warnings |-> analysis.warnings, recommendations |-> analysis.recommendations,
        mechanisms |-> analysis.mechanisms, ipTestResults |-> entries,
        mailauthResult |->
            IF primaryResult # Null
            THEN [status |-> primaryResult[1].status,
                  explanation |-> orElse(primaryResult[1].comment,
                                         orElse(primaryResult[1].explanation,
                                                "No additional explanation available")),
                  details |-> primaryResult]
            ELSE [status |-> "error",
                  explanation |-> "Unable to perform SPF analysis with any test IP",
                  details |-> Null]]

\* entries of a TXT answer, each an array of character-string chunks
TxtEntry ==
    [ spf_soft |-> \* 'v=spf1 include:_spf.example.com ~all'
          <<<<"v", "=", "s", "p", "f", "1", " ", "i", "n", "c", "l", "u", "d", "e", ":", "_", "s", "p", "f", ".", "e", "x", "a", "m", "p", "l", "e", ".", "c", "o", "m", " ", "~", "a", "l", "l">>>>,
      spf_upper |-> \* 'V=SPF1 -all'
          <<<<"V", "=", "S", "P", "F", "1", " ", "-", "a", "l", "l">>>>,
      spf_chunked |-> \* 'v=sp' + 'f1 mx ptr +all'
          <<<<"v", "=", "s", "p">>, <<"f", "1", " ", "m", "x", " ", "p", "t", "r", " ", "+", "a", "l", "l">>>>,
      verification |-> \* 'site-verification=abc'
          <<<<"s", "i", "t", "e", "-", "v", "e", "r", "i", "f", "i", "c", "a", "t", "i", "o", "n", "=", "a", "b", "c">>>>,
      not_prefix |-> \* ' v=spf1 -all'
          <<<<" ", "v", "=", "s", "p", "f", "1", " ", "-", "a", "l", "l">>>> ]

SpfTxtEntries == {TxtEntry.spf_soft, TxtEntry.spf_upper, TxtEntry.spf_chunked, TxtEntry.verification, TxtEntry.not_prefix}

SpfTxtAnswers == DnsErrors \cup { Answer(records) : records \in seqsUpTo(SpfTxtEntries, MaxTxt) }

SpfResolveTxt ==
    /\ op = "analyzeSPF" /\ pc = "start"
    /\ \E answer \in SpfTxtAnswers :
          LET step == spfResolved(answer, Domain)
          IN /\ dns' = answer
             /\ pc' = step.pc
             /\ ret' = step.ret
             /\ spfRecord' = step.spfRecord
    /\ UNCHANGED <<op, probesStarted, spfResults, dkimKey, results, analysisOut, rlVars>>

\* SpfProbeStart issuing the next call of spf() without awaiting the one before
SpfProbeStartEager ==
    /\ op = "analyzeSPF" /\ pc = "probe"
    /\ probesStarted < Len(testIPs)
    /\ probesStarted' = probesStarted + 1
    /\ UNCHANGED <<op, pc, dns, spfRecord, spfResults, dkimKey, results, ret, analysisOut, rlVars>>

\* the loop reaches `await spf({...})` for the next test address
SpfProbeStart ==
    /\ op = "analyzeSPF" /\ pc = "probe"
    /\ probesStarted = Len(spfResults)
    /\ probesStarted < Len(testIPs)
    /\ probesStarted' = probesStarted + 1
    /\ UNCHANGED <<op, pc, dns, spfRecord, spfResults, dkimKey, results, ret, analysisOut, rlVars>>

\* the awaited spf() settles and the loop body pushes its entry
SpfProbeSettle ==
    /\ op = "analyzeSPF" /\ pc = "probe"
    /\ probesStarted = Len(spfResults) + 1
    /\ \E outcome \in ProbeOutcomes :
          spfResults' = spfProbeEntry(spfResults, testIPs[probesStarted], outcome)
    /\ pc' = IF probesStarted = Len(testIPs) THEN "analyze" ELSE "probe"
    /\ UNCHANGED <<op, dns, spfRecord, probesStarted, dkimKey, results, ret, analysisOut, rlVars>>

SpfAnalyze ==
    /\ op = "analyzeSPF" /\ pc = "analyze"
    /\ ret' = Return(spfSuccess(Domain, spfRecord, spfResults))
    /\ pc' = "done"
    /\ UNCHANGED <<op, dns, spfRecord, probesStarted, spfResults, dkimKey, results, analysisOut, rlVars>>

----------------------------------------------------------------------------
(* services/dkimService.js: analyzeDKIM, analyzeDKIMRecord *)

DkimText ==
    [ vDKIM1 |-> \* v=DKIM1
          <<"v", "=", "D", "K", "I", "M", "1">>,
      k_rsa |-> \* k=rsa
          <<"k", "=", "r", "s", "a">>,
      p |-> \* p=
          <<"p", "=">>,
      p_empty |-> \* p=;
          <<"p", "=", ";">>,
      k_ed25519 |-> \* k=ed25519
          <<"k", "=", "e", "d", "2", "5", "5", "1", "9">>,
      h_sha256 |-> \* h=sha256
          <<"h", "=", "s", "h", "a", "2", "5", "6">>,
      h_sha1 |-> \* h=sha1
          <<"h", "=", "s", "h", "a", "1">>,
      s_email |-> \* s=email
          <<"s", "=", "e", "m", "a", "i", "l">>,
      t_y |-> \* t=y
          <<"t", "=", "y">>,
      t_s |-> \* t=s
          <<"t", "=", "s">>,
      domainkey |-> \* ._domainkey.
          <<".", "_", "d", "o", "m", "a", "i", "n", "k", "e", "y", ".">>,
      default |-> \* default
          <<"d", "e", "f", "a", "u", "l", "t">>,
      junk |-> \* v=spf1 -all
          <<"v", "=", "s", "p", "f", "1", " ", "-", "a", "l", "l">>,
      sep |-> \* ; 
          <<";", " ">> ]

\* the characters of the class [A-Za-z0-9+/=]
KeyChars ==
    DOMAIN Lower \cup { Lower[c] : c \in DOMAIN Lower }
    \cup {"0", "1", "2", "3", "4", "5", "6", "7", "8", "9", "+", "/", "="}

minOf(S) == CHOOSE x \in S : \A y \in S : x <= y

\* record.match(/p=([A-Za-z0-9+/=]+)/): the length of group 1 at the leftmost
\* match, -1 when there is no match
keyLengthOf(record) ==
    LET starts == { i \in 1..(Len(record) - 2) :
                      record[i] = "p" /\ record[i + 1] = "=" /\ record[i + 2] \in KeyChars }
    IN IF starts = {} THEN -1
       ELSE LET from == minOf(starts) + 2
                stops == { j \in from..Len(record) : record[j] \notin KeyChars }
            IN (IF stops = {} THEN Len(record) + 1 ELSE minOf(stops)) - from

D_KeyPresent == Msg("Public key present (+2 points)")
W_NoPublicKey == Msg("No public key found in DKIM record")
D_StrongKey == Msg("Strong key length (+0.5 points)")
D_MailauthCheck(result) == MsgS("Mailauth DKIM check: ${result.status.result}", <<result>>)
D_VerifyPassed == Msg("DKIM verification passed (+0.5 points)")
D_Info(info) == MsgS("DKIM info: ${result.info}", <<info>>)

\* numbers with one decimal (score.base, score.value) are held in tenths
clamp(x, lo, hi) == IF x < lo THEN lo ELSE IF x > hi THEN hi ELSE x

\* dkimLevel with the bands one point too low
dkimLevelLow(finalScore) ==
    IF finalScore >= 30 THEN "Excellent"
    ELSE IF finalScore >= 20 THEN "Good"
    ELSE IF finalScore >= 10 THEN "Fair"
    ELSE "Poor"

\* lines 319-322 (dkimService.js 185-188)
dkimLevel(finalScore) ==
    IF finalScore >= 40 THEN "Excellent"
    ELSE IF finalScore >= 30 THEN "Good"
    ELSE IF finalScore >= 20 THEN "Fair"
    ELSE "Poor"

\* dkimPublicKey awarding the key points to every record
dkimPublicKeyAlways(st, record) ==
    [st EXCEPT !.base = @ + 20, !.details = Append(@, D_KeyPresent)]

\* lines 241-247: check for public key
dkimPublicKey(st, record) ==
    IF includes(record, DkimText.p) /\ ~includes(record, DkimText.p_empty)
    THEN [st EXCEPT !.base = @ + 20, !.details = Append(@, D_KeyPresent)]
    ELSE [st EXCEPT !.warnings = Append(@, W_NoPublicKey)]

\* lines 249-272: key type, hash algorithm, service type
dkimTags(st, record) ==
    LET s1 == IF includes(record, DkimText.k_rsa)
              THEN [st EXCEPT !.base = @ + 10, !.details = Append(@, Msg("RSA key type (+1 point)"))]
              ELSE IF includes(record, DkimText.k_ed25519)
              THEN [st EXCEPT !.base = @ + 15, !.details = Append(@, Msg("Ed25519 key type - excellent security (+1.5 points)"))]
              ELSE st
        s2 == IF includes(record, DkimText.h_sha256)
              THEN [s1 EXCEPT !.base = @ + 10, !.details = Append(@, Msg("SHA-256 hash algorithm (+1 point)"))]
              ELSE IF includes(record, DkimText.h_sha1)
              THEN [s1 EXCEPT !.base = @ + 5, !.details = Append(@, Msg("SHA-1 hash algorithm (+0.5 points)")),
                              !.recommendations = Append(@, Msg("Consider upgrading to SHA-256 for better security"))]
              ELSE s1
    IN IF includes(record, DkimText.s_email)
       THEN [s2 EXCEPT !.base = @ + 5, !.details = Append(@, Msg("Restricted to email service (+0.5 points)"))]
       ELSE s2

\* lines 274-294: flags and key length
dkimFlagsAndLength(st, record) ==
    LET s1 == IF includes(record, DkimText.t_y)
              THEN [st EXCEPT !.warnings = Append(@, Msg("Testing mode enabled (t=y). Remove this flag for production."))] ELSE st
        s2 == IF includes(record, DkimText.t_s)
              THEN [s1 EXCEPT !.warnings = Append(@, Msg("Strict mode enabled. This may cause issues with some email systems."))] ELSE s1
        keyLength == keyLengthOf(record)
    IN IF keyLength = -1 THEN s2
       ELSE IF keyLength > 300
       THEN [s2 EXCEPT !.base = @ + 5, !.details = Append(@, D_StrongKey)]
       ELSE IF keyLength < 200
       THEN [s2 EXCEPT !.warnings = Append(@, Msg("Potentially weak key length detected")),
                       !.recommendations = Append(@, Msg("Consider using a stronger RSA key (2048+ bits)"))]
       ELSE s2

\* lines 296-316: the mailauth result, when there is one
dkimMailauth(st, dkimResult) ==
    IF dkimResult # Null /\ Len(dkimResult[1].results) > 0
    THEN LET result == dkimResult[1].results[1]
             s1 == IF result.status # None
                   THEN LET s0 == [st EXCEPT !.details = Append(@, D_MailauthCheck(result.status))]
                        IN IF result.status = "pass"
                           THEN [s0 EXCEPT !.base = @ + 5,
                                           !.details = Append(@, D_VerifyPassed)]
                           ELSE IF result.status = "neutral"
                           THEN [s0 EXCEPT !.details = Append(@, Msg("DKIM verification neutral (no penalty)"))]
                           ELSE s0
                   ELSE st
         IN IF result.info # None
            THEN [s1 EXCEPT !.details = Append(@, D_Info(result.info))]
            ELSE s1
    ELSE st

\* analyzeDKIMRecord(record, dkimResult)
analyzeDKIMRecord(record, dkimResult) ==
    IF ~includes(record, DkimText.vDKIM1) /\ ~includes(record, DkimText.k_rsa) /\ ~includes(record, DkimText.p)
    THEN [score |-> [value |-> 0, outOf |-> 5, level |-> "Poor"],
          warnings |-> <<Msg("Invalid DKIM record format")>>, recommendations |-> << >>]
    ELSE LET s0 == [base |-> 10, details |-> <<Msg("Valid DKIM record found (+1 point)")>>,
                    warnings |-> << >>, recommendations |-> << >>]
             st == dkimMailauth(
                       dkimFlagsAndLength(dkimTags(dkimPublicKey(s0, record), record), record),
                       dkimResult)
             finalScore == clamp(st.base, 0, 50)
         IN [warnings |-> st.warnings, recommendations |-> st.recommendations,
             score |-> [value |-> finalScore, outOf |-> 5,
                        level |-> dkimLevel(finalScore), details |-> st.details]]

R_SetUpDkim == Msg("Set up DKIM signing for your domain")
R_CommonSelectors == Msg("Common selectors to try: default, google, mail, dkim, selector1, selector2")
R_ContactProvider == Msg("Contact your email provider for DKIM setup instructions")


\* `${selector}._domainkey.${domain}`
dkimRecordName(domain, selector) == selector \o DkimText.domainkey \o domain

\* dkimNotFound reporting a zero score with the failure
dkimNotFoundScored(domain, selector) ==
    [success |-> FALSE, error |-> ErrorText.DkimNotFound \o selector \o <<"'">>,
     domain |-> domain, selector |-> selector,
     checkedRecord |-> dkimRecordName(domain, selector),
     recommendations |-> <<R_SetUpDkim, R_CommonSelectors, R_ContactProvider>>,
     score |-> [value |-> 0, outOf |-> 5, level |-> "Poor"]]

\* lines 166-177 and 204-215 (dkimService.js 32-43 and 70-81)
dkimNotFound(domain, selector) ==
    [success |-> FALSE, error |-> ErrorText.DkimNotFound \o selector \o <<"'">>,
     domain |-> domain, selector |-> selector,
     checkedRecord |-> dkimRecordName(domain, selector),
     recommendations |-> <<R_SetUpDkim, R_CommonSelectors, R_ContactProvider>>]

isDkimShaped(txt) ==
    includes(txt, DkimText.vDKIM1) \/ includes(txt, DkimText.k_rsa) \/ includes(txt, DkimText.p)

\* flatRecords.find(...): the first DKIM-shaped record, Null for undefined
dkimFind(flatRecords) ==
    LET found == SelectSeq(flatRecords, isDkimShaped)
    IN IF Len(found) = 0 THEN Null ELSE Some(found[1])

\* the handler of the inner try leaving the error to the caller
dkimCatchRethrow(error, domain, selector) == Throw(error)

\* lines 203-216: catch (dnsError)
dkimCatch(error, domain, selector) == Return(dkimNotFound(domain, selector))

\* lines 157-178: from the call to the mailauth verification, or to an early return
dkimResolved(answer, domain, selector) ==
    IF answer.code # None
    THEN [pc |-> "done", ret |-> dkimCatch(answer, domain, selector), dkimKey |-> << >>]
    ELSE LET found == dkimFind(flatten(answer.records))
         IN IF found = Null
            THEN [pc |-> "done", ret |-> Return(dkimNotFound(domain, selector)),
                  dkimKey |-> << >>]
            ELSE [pc |-> "verify", ret |-> [kind |-> "pending"], dkimKey |-> found[1]]

\* lines 180-202: mailauthResult is null when dkimVerify threw
dkimVerified(key, outcome, domain, selector) ==
    LET mailauthResult == IF outcome.threw THEN Null ELSE outcome.value
        analysis == analyzeDKIMRecord(key, mailauthResult)
    IN Return([success |-> TRUE, domain |-> domain, selector |-> selector,
               checkedRecord |-> dkimRecordName(domain, selector),
               rawRecord |-> key, mailauthResult |-> mailauthResult,
               warnings |-> analysis.warnings,
               recommendations |-> analysis.recommendations,
               score |-> analysis.score])

\* what dkimVerify comes to; status stands for results[0].status.result and is
\* None when status or status.result is missing
DkimVerifyOutcomes ==
    { Rejected(ErrMessage.ETIMEOUT),
      Fulfilled([results |-> << >>]),
      Fulfilled([results |-> <<[status |-> "pass", info |-> "dkim=pass header.d=ex.com"]>>]),
      Fulfilled([results |-> <<[status |-> "neutral", info |-> None]>>]) }

\* a key payload of n base64 characters
keyOf(n) == [i \in 1..n |-> "A"]

\* key lengths on both sides of the thresholds 200 and 300
KeyLengths == {199, 200, 301}

optional(S) == {<< >>} \cup { <<x>> : x \in S }

\* tag lists v; k; h; s; t; p with each tag optional, p empty, revoked or keyed
DkimRecords ==
    { join(v \o k \o h \o sv \o t \o pk, DkimText.sep) :
        v \in optional({DkimText.vDKIM1}), k \in optional({DkimText.k_rsa, DkimText.k_ed25519}),
        h \in optional({DkimText.h_sha256, DkimText.h_sha1}), sv \in optional({DkimText.s_email}),
        t \in optional({DkimText.t_y, DkimText.t_s}),
        pk \in optional({DkimText.p, DkimText.p_empty} \cup { DkimText.p \o keyOf(n) : n \in KeyLengths }) }

\* a TXT entry: the text in chunks of at most 255 characters
entryOf(txt) ==
    IF Len(txt) > 255 THEN <<SubSeq(txt, 1, 255), SubSeq(txt, 256, Len(txt))>> ELSE <<txt>>

DkimTxtAnswers ==
    DnsErrors
    \cup { Answer(<< >>), Answer(<<entryOf(DkimText.junk)>>) }
    \cup { Answer(<<entryOf(r)>>) : r \in DkimRecords }
    \cup { Answer(<<entryOf(DkimText.junk), entryOf(DkimText.vDKIM1 \o DkimText.sep \o DkimText.p \o keyOf(n))>>) : n \in KeyLengths }

Selector == DkimText.default

DkimResolveTxt ==
    /\ op = "analyzeDKIM" /\ pc = "start"
    /\ \E answer \in DkimTxtAnswers :
          LET step == dkimResolved(answer, Domain, Selector)
          IN /\ dns' = answer
             /\ pc' = step.pc
             /\ ret' = step.ret
             /\ dkimKey' = step.dkimKey
    /\ UNCHANGED <<op, probesStarted, spfResults, spfRecord, results, analysisOut, rlVars>>

DkimVerify ==
    /\ op = "analyzeDKIM" /\ pc = "verify"
    /\ \E outcome \in DkimVerifyOutcomes :
          ret' = dkimVerified(dkimKey, outcome, Domain, Selector)
    /\ pc' = "done"
    /\ UNCHANGED <<op, dns, probesStarted, spfResults, spfRecord, dkimKey, results, analysisOut, rlVars>>

----------------------------------------------------------------------------
(* services/mxService.js: analyzeMX, analyzeMXRecords *)

MxText ==
    [ google |-> \* google.com
          <<"g", "o", "o", "g", "l", "e", ".", "c", "o", "m">>,
      gmail |-> \* gmail.com
          <<"g", "m", "a", "i", "l", ".", "c", "o", "m">>,
      outlook |-> \* outlook.com
          <<"o", "u", "t", "l", "o", "o", "k", ".", "c", "o", "m">>,
      hotmail |-> \* hotmail.com
          <<"h", "o", "t", "m", "a", "i", "l", ".", "c", "o", "m">>,
      live |-> \* live.com
          <<"l", "i", "v", "e", ".", "c", "o", "m">>,
      cloudflare |-> \* cloudflare
          <<"c", "l", "o", "u", "d", "f", "l", "a", "r", "e">>,
      protonmail |-> \* protonmail
          <<"p", "r", "o", "t", "o", "n", "m", "a", "i", "l">>,
      zoho |-> \* zoho
          <<"z", "o", "h", "o">>,
      dot |-> \* .
          <<".">> ]
MxHost ==
    [ google |-> \* a.google.com
          <<"a", ".", "g", "o", "o", "g", "l", "e", ".", "c", "o", "m">>,
      zoho |-> \* MX.ZOHO.EU
          <<"M", "X", ".", "Z", "O", "H", "O", ".", "E", "U">>,
      own |-> \* m.ex.com
          <<"m", ".", "e", "x", ".", "c", "o", "m">>,
      backup |-> \* b.ex.com
          <<"b", ".", "e", "x", ".", "c", "o", "m">> ]

D_Providers(names) == MsgS("Detected providers: ${detectedProviders.join(', ')}", names)

\* insertion of r after the records whose priority is not greater
RECURSIVE insertByPriority(_, _)
insertByPriority(sorted, r) ==
    IF Len(sorted) = 0 THEN <<r>>
    ELSE IF sorted[1].priority - r.priority <= 0
    THEN <<sorted[1]>> \o insertByPriority(Tail(sorted), r)
    ELSE <<r>> \o sorted

\* mxRecords.sort((a, b) => a.priority - b.priority): a stable sort
RECURSIVE sortByPriority(_)
sortByPriority(records) ==
    IF Len(records) = 0 THEN << >>
    ELSE insertByPriority(sortByPriority(SubSeq(records, 1, Len(records) - 1)),
                          records[Len(records)])

\* lines 118-121
mxLevel(finalScore) ==
    IF finalScore >= 25 THEN "Excellent"
    ELSE IF finalScore >= 20 THEN "Good"
    ELSE IF finalScore >= 10 THEN "Fair"
    ELSE "Poor"

\* lines 79-90: the provider table, in the order of its keys
detectedProvidersOf(exchanges) ==
    LET some(subs) == \E i \in 1..Len(exchanges) : \E x \in subs : includes(exchanges[i], x)
        pick(name, subs) == IF some(subs) THEN <<name>> ELSE << >>
    IN pick("google.com", {MxText.google, MxText.gmail})
       \o pick("microsoft.com", {MxText.outlook, MxText.hotmail, MxText.live})
       \o pick("cloudflare.com", {MxText.cloudflare})
       \o pick("protonmail.com", {MxText.protonmail})
       \o pick("zoho.com", {MxText.zoho})

\* mxBase giving the priority point as soon as two priorities differ
mxBaseSomeDistinct(records) ==
    LET s0 == [base |-> 10, details |-> <<Msg("MX records present (+1 point)")>>,
               warnings |-> << >>, recommendations |-> << >>]
        s1 == IF Len(records) >= 2
              THEN [s0 EXCEPT !.base = @ + 10]
              ELSE s0
        uniquePriorities == { records[i].priority : i \in 1..Len(records) }
    IN IF Cardinality(uniquePriorities) > 1 \/ Len(records) = 1
       THEN [s1 EXCEPT !.base = @ + 10]
       ELSE [s1 EXCEPT !.warnings = Append(@, Msg("Some MX records have the same priority"))]

\* lines 56-76: presence, redundancy, priorities
mxBase(records) ==
    LET s0 == [base |-> 10, details |-> <<Msg("MX records present (+1 point)")>>,
               warnings |-> << >>, recommendations |-> << >>]
        s1 == IF Len(records) >= 2
              THEN [s0 EXCEPT !.base = @ + 10, !.details = Append(@, Msg("Multiple MX records for redundancy (+1 point)"))]
              ELSE [s0 EXCEPT !.recommendations = Append(@, Msg("Consider adding backup MX records for redundancy"))]
        uniquePriorities == { records[i].priority : i \in 1..Len(records) }
    IN IF Cardinality(uniquePriorities) = Len(records)
       THEN [s1 EXCEPT !.base = @ + 10, !.details = Append(@, Msg("Proper priority configuration (+1 point)"))]
       ELSE [s1 EXCEPT !.warnings = Append(@, Msg("Some MX records have the same priority")),
                       !.recommendations = Append(@, Msg("Use unique priority values for better load balancing"))]

\* lines 78-105: providers, priority 0, priority above 50
mxProvidersAndPriorities(st, records) ==
    LET exchanges == [i \in 1..Len(records) |-> toLowerCase(records[i].exchange)]
        detectedProviders == detectedProvidersOf(exchanges)
        s1 == IF Len(detectedProviders) > 0
              THEN [st EXCEPT !.details = Append(@, D_Providers(detectedProviders))]
              ELSE st
        s2 == IF \E i \in 1..Len(records) : records[i].priority = 0
              THEN [s1 EXCEPT !.warnings = Append(@, Msg("Priority 0 detected - ensure this is intentional"))]
              ELSE s1
    IN IF \E i \in 1..Len(records) : records[i].priority > 50
       THEN [s2 EXCEPT !.recommendations = Append(@, Msg("Consider using lower priority values (closer to 0) for better delivery"))]
       ELSE s2

\* lines 107-115: null MX (RFC 7505)
mxNull(st, records) ==
    LET hasNullMx == \E i \in 1..Len(records) :
                        records[i].exchange = MxText.dot \/ records[i].exchange = << >>
    IN IF hasNullMx /\ Len(records) = 1
       THEN [st EXCEPT !.warnings = Append(@, Msg("Null MX record detected - this domain does not accept email")), !.base = 0,
                       !.details = <<Msg("Null MX record - domain explicitly rejects email")>>]
       ELSE IF hasNullMx
       THEN [st EXCEPT !.warnings = Append(@, Msg("Mixed null and regular MX records - this configuration may cause issues"))]
       ELSE st

\* analyzeMXRecords(records)
analyzeMXRecords(records) ==
    IF Len(records) = 0
    THEN [score |-> [value |-> 0, outOf |-> 3, level |-> "Poor"],
          warnings |-> <<Msg("No MX records found")>>, recommendations |-> << >>]
    ELSE LET st == mxNull(mxProvidersAndPriorities(mxBase(records), records), records)
             finalScore == clamp(st.base, 0, 30)
         IN [warnings |-> st.warnings, recommendations |-> st.recommendations,
             score |-> [value |-> finalScore, outOf |-> 3,
                        level |-> mxLevel(finalScore), details |-> st.details]]

\* the handler leaving the error to the caller
mxCatchRethrow(error, domain) == Throw(error)

\* lines 37-43: catch (error)
mxCatch(error, domain) ==
    Return([success |-> FALSE, error |-> error.message, domain |-> domain])

\* sortedMx without the sort
mxSortedUnsorted(mxRecords) == mxRecords

\* line 27
mxSorted(mxRecords) == sortByPriority(mxRecords)

\* analyzeMX(domain), given what resolveMx came to
analyzeMX(answer, domain) ==
    IF answer.code # None
    THEN mxCatch(answer, domain)
    ELSE IF Len(answer.records) = 0
    THEN Return([success |-> FALSE, error |-> ErrorText.NoMx, domain |-> domain,
                 recommendations |-> <<Msg("Add MX records to enable email delivery to your domain"), Msg("MX records specify which mail servers handle email for your domain"), Msg("Ensure proper priority values for load balancing and redundancy")>>])
    ELSE LET sortedMx == mxSorted(answer.records)
             analysis == analyzeMXRecords(sortedMx)
         IN Return([success |-> TRUE, domain |-> domain, records |-> sortedMx,
                    warnings |-> analysis.warnings,
                    recommendations |-> analysis.recommendations,
                    score |-> analysis.score])

MxPool ==
    { [priority |-> 0, exchange |-> MxText.dot], [priority |-> 10, exchange |-> << >>],
      [priority |-> 10, exchange |-> MxHost.google], [priority |-> 10, exchange |-> MxHost.zoho],
      [priority |-> 0, exchange |-> MxHost.own], [priority |-> 20, exchange |-> MxHost.own],
      [priority |-> 60, exchange |-> MxHost.backup] }

MxAnswers ==
    { DnsError("ENODATA", ErrMessage.MxENODATA), DnsError("ETIMEOUT", ErrMessage.MxETIMEOUT) }
    \cup { Answer(records) : records \in seqsUpTo(MxPool, MaxMx) }

MxResolve ==
    /\ op = "analyzeMX" /\ pc = "start"
    /\ \E answer \in MxAnswers :
          /\ dns' = answer
          /\ ret' = analyzeMX(answer, Domain)
    /\ pc' = "done"
    /\ UNCHANGED <<op, probesStarted, spfResults, spfRecord, dkimKey, results, analysisOut, rlVars>>

----------------------------------------------------------------------------
(* services/emailSecurityService.js: analyzeEmailSecurity *)


\* the reports of analyzeDMARC, as the aggregator consumes them: success, the
\* parsed policy, warnings, recommendations and a score in half points of 5
DmarcReports ==
    { [success |-> FALSE, error |-> ErrorText.NoDmarc, domain |-> Domain,
       recommendations |-> <<Msg("Create a DMARC record at _dmarc.${domain}")>>],
      [success |-> TRUE, domain |-> Domain, parsed |-> [p |-> "none"],
       warnings |-> <<Msg("DMARC policy is none: no protection")>>,
       recommendations |-> <<Msg("Add a rua address to receive reports")>>,
       score |-> [value |-> 15, outOf |-> 5, level |-> "Poor"]],
      [success |-> TRUE, domain |-> Domain, parsed |-> [p |-> "quarantine"],
       warnings |-> << >>, recommendations |-> << >>,
       score |-> [value |-> 35, outOf |-> 5, level |-> "Good"]],
      [success |-> TRUE, domain |-> Domain, parsed |-> [p |-> "reject"],
       warnings |-> << >>, recommendations |-> << >>,
       score |-> [value |-> 50, outOf |-> 5, level |-> "Excellent"]] }

\* the reports among the completions of an analyzer
reportsOf(completions) == { c.value : c \in { x \in completions : x.kind = "return" } }

\* reports analyzeSPF returns: not found, a resolver failure, a complete analysis
SpfReports ==
    reportsOf({ Return(spfNotFound(Domain)),
                spfCatch(DnsError("ETIMEOUT", ErrMessage.ETIMEOUT), Domain),
                Return(spfSuccess(Domain, join(TxtEntry.spf_soft, << >>),
                                  spfProbeEntry(<< >>, testIPs[1], Rejected(ErrMessage.ETIMEOUT)))) })

\* reports analyzeDKIM returns: not found, a bare version tag, a weak key, a full record
DkimReports ==
    reportsOf({ dkimCatch(DnsError("ETIMEOUT", ErrMessage.ETIMEOUT), Domain, Selector),
                dkimVerified(DkimText.vDKIM1, Rejected(ErrMessage.ETIMEOUT), Domain, Selector),
                dkimVerified(join(<<DkimText.vDKIM1, DkimText.p \o keyOf(199)>>, DkimText.sep),
                             Fulfilled([results |-> << >>]), Domain, Selector),
                dkimVerified(join(<<DkimText.vDKIM1, DkimText.k_rsa, DkimText.h_sha256, DkimText.p \o keyOf(301)>>, DkimText.sep),
                             Fulfilled([results |-> << >>]), Domain, Selector) })

\* reports analyzeMX returns: no records, a resolver failure, a null MX, one and two hosts
MxReports ==
    reportsOf({ analyzeMX(answer, Domain) :
        answer \in { Answer(<< >>), DnsError("ETIMEOUT", ErrMessage.MxETIMEOUT),
                     Answer(<<[priority |-> 0, exchange |-> MxText.dot]>>),
                     Answer(<<[priority |-> 20, exchange |-> MxHost.own]>>),
                     Answer(<<[priority |-> 20, exchange |-> MxHost.own],
                              [priority |-> 10, exchange |-> MxHost.google]>>) } })

\* how each of the four tasks may settle, in the order of the array of line 9
TaskOutcomes ==
    << { Fulfilled(r) : r \in DmarcReports } \cup { Rejected(ErrMessage.Dmarc) },
       { Fulfilled(r) : r \in SpfReports } \cup { Rejected(ErrMessage.Task) },
       { Fulfilled(r) : r \in DkimReports } \cup { Rejected(ErrMessage.Task) },
       { Fulfilled(r) : r \in MxReports } \cup { Rejected(ErrMessage.Task) } >>

Pending == [status |-> "pending"]

\* an element of the array Promise.allSettled resolves to
settledOf(outcome) ==
    IF outcome.threw
    THEN [status |-> "rejected", reason |-> [message |-> outcome.message]]
    ELSE [status |-> "fulfilled", value |-> outcome.value[1]]

\* slotOf losing the reason of the rejection
slotOfNoReason(r) ==
    IF r.status = "fulfilled" THEN r.value ELSE [success |-> FALSE]

\* lines 16-18: r.status === 'fulfilled' ? r.value : { success: false, error: r.reason.message }
slotOf(r) ==
    IF r.status = "fulfilled" THEN r.value
    ELSE [success |-> FALSE, error |-> r.reason.message]

\* result.success && result.score
contributes(report) == report.success /\ "score" \in DOMAIN report

\* lines 21-42: totalScore in tenths of a point, maxScore in points
scoreSums(reports) ==
    LET add(acc, report) ==
            IF contributes(report)
            THEN [totalScore |-> acc.totalScore + report.score.value,
                  maxScore |-> acc.maxScore + report.score.outOf]
            ELSE acc
    IN add(add(add(add([totalScore |-> 0, maxScore |-> 0],
                       reports[1]), reports[2]), reports[3]), reports[4])

\* lines 44-48: the level, from the overall score before it is rounded;
\* overallScore is totalScore (in tenths) / maxScore
securityLevelOf(sums) ==
    IF sums.maxScore > 0 /\ sums.totalScore >= 8 * sums.maxScore THEN "Excellent"
    ELSE IF sums.maxScore > 0 /\ sums.totalScore >= 6 * sums.maxScore THEN "Good"
    ELSE IF sums.maxScore > 0 /\ sums.totalScore >= 4 * sums.maxScore THEN "Fair"
    ELSE "Poor"

\* overallValue cutting the second decimal instead of rounding
overallValueTruncated(sums) ==
    IF sums.maxScore > 0 THEN (10 * sums.totalScore) \div sums.maxScore ELSE 0

\* line 92: Math.round(overallScore * 10) / 10, in tenths
overallValue(sums) ==
    IF sums.maxScore > 0
    THEN (2 * 10 * sums.totalScore + sums.maxScore) \div (2 * sums.maxScore)
    ELSE 0

\* if (result.field) all.push(...result.field), over the four reports in order
collect(reports, field) ==
    LET of(report) == IF field \in DOMAIN report THEN report[field] ELSE << >>
    IN of(reports[1]) \o of(reports[2]) \o of(reports[3]) \o of(reports[4])

\* priorityRecommendationsOf asking for the upgrade of every policy short of reject
priorityRecommendationsStrict(reports) ==
    (IF ~reports[1].success
     THEN <<Msg("CRITICAL: Set up DMARC policy to prevent email spoofing")>>
     ELSE IF "parsed" \in DOMAIN reports[1] /\ reports[1].parsed.p # "reject"
     THEN <<Msg("IMPORTANT: Upgrade DMARC policy from \"none\" to \"quarantine\" or \"reject\"")>>
     ELSE << >>)
    \o (IF ~reports[2].success
        THEN <<Msg("CRITICAL: Configure SPF record to authorize mail servers")>> ELSE << >>)
    \o (IF ~reports[3].success
        THEN <<Msg("IMPORTANT: Enable DKIM signing for email authentication")>> ELSE << >>)
    \o (IF ~reports[4].success
        THEN <<Msg("CRITICAL: Configure MX records for email delivery")>> ELSE << >>)

\* lines 65-83 (the texts without their leading symbol)
priorityRecommendationsOf(reports) ==
    (IF ~reports[1].success
     THEN <<Msg("CRITICAL: Set up DMARC policy to prevent email spoofing")>>
     ELSE IF "parsed" \in DOMAIN reports[1] /\ reports[1].parsed.p = "none"
     THEN <<Msg("IMPORTANT: Upgrade DMARC policy from \"none\" to \"quarantine\" or \"reject\"")>>
     ELSE << >>)
    \o (IF ~reports[2].success
        THEN <<Msg("CRITICAL: Configure SPF record to authorize mail servers")>> ELSE << >>)
    \o (IF ~reports[3].success
        THEN <<Msg("IMPORTANT: Enable DKIM signing for email authentication")>> ELSE << >>)
    \o (IF ~reports[4].success
        THEN <<Msg("CRITICAL: Configure MX records for email delivery")>> ELSE << >>)

\* lines 16-103: the report, from the settled array
aggregate(domain, settled) ==
    LET reports == [i \in 1..4 |-> slotOf(settled[i])]
        sums == scoreSums(reports)
        succeeded(report) == report.success
    IN [domain |-> domain,
        dmarc |-> reports[1], spf |-> reports[2], dkim |-> reports[3], mx |-> reports[4],
        overallScore |-> [value |-> overallValue(sums), outOf |-> 10,
                          level |-> securityLevelOf(sums)],
        summary |-> [totalChecks |-> 4,
                     passedChecks |-> Len(SelectSeq(reports, succeeded)),
                     warnings |-> collect(reports, "warnings"),
                     recommendations |-> collect(reports, "recommendations"),
                     priorityRecommendations |-> priorityRecommendationsOf(reports)]]

\* lines 9-14: the four analyzers are started
AllLaunch ==
    /\ op = "analyzeEmailSecurity" /\ pc = "start"
    /\ results' = [i \in 1..4 |-> Pending]
    /\ pc' = "settling"
    /\ UNCHANGED <<op, dns, probesStarted, spfResults, spfRecord, dkimKey, ret, analysisOut, rlVars>>

\* one of the four tasks settles, whatever the others have done
AllSettle ==
    /\ op = "analyzeEmailSecurity" /\ pc = "settling"
    /\ \E i \in 1..4 :
          /\ results[i] = Pending
          /\ \E outcome \in TaskOutcomes[i] :
                results' = [results EXCEPT ![i] = settledOf(outcome)]
    /\ UNCHANGED <<op, pc, dns, probesStarted, spfResults, spfRecord, dkimKey, ret, analysisOut, rlVars>>

\* allSettled resolves once every task has settled; the report is built and returned
AllAggregate ==
    /\ op = "analyzeEmailSecurity" /\ pc = "settling"
    /\ \A i \in 1..4 : results[i] # Pending
    /\ ret' = Return(aggregate(Domain, results))
    /\ pc' = "done"
    /\ UNCHANGED <<op, dns, probesStarted, spfResults, spfRecord, dkimKey, results, analysisOut, rlVars>>

----------------------------------------------------------------------------
(* One request: a public operation runs from its call to its completion *)

Ops == {"analyzeSPF", "analyzeDKIM", "analyzeMX", "analyzeEmailSecurity"}

Init ==
    /\ op \in Ops
    /\ pc = "start"
    /\ dns = None /\ probesStarted = 0 /\ spfResults = << >> /\ spfRecord = << >>
    /\ dkimKey = << >> /\ results = << >> /\ ret = [kind |-> "pending"]
    /\ analysisOut = None
    /\ rateLimitStore = << >> /\ now = 0 /\ nextSweep = sweepInterval
    /\ rlLast = [ip |-> None] /\ rlWindow = << >> /\ rlShadow = << >>

Next ==
    \/ SpfResolveTxt
    \/ SpfProbeStart
    \/ SpfProbeSettle
    \/ SpfAnalyze
    \/ DkimResolveTxt
    \/ DkimVerify
    \/ MxResolve
    \/ AllLaunch
    \/ AllSettle
    \/ AllAggregate

Spec == Init /\ [][Next]_vars

----------------------------------------------------------------------------
(* Claims about one request *)

Analyzers == {"analyzeSPF", "analyzeDKIM", "analyzeMX"}

\* the four slots of an aggregate report, in protocol order
slotsOf(report) == <<report.dmarc, report.spf, report.dkim, report.mx>>

\* C2: whichever of the four analyzers reject, analyzeEmailSecurity still returns
\* its report; the slot of a rejected analyzer is exactly {success: false, error}
\* with the reason's message, the slot of every other analyzer is the report that
\* analyzer returned, and summary.passedChecks counts the slots whose success is true.
C2_PartialFailure ==
    (op = "analyzeEmailSecurity" /\ pc = "done") =>
        /\ ret.kind = "return"
        /\ LET slots == slotsOf(ret.value)
           IN /\ \A i \in 1..4 :
                    IF results[i].status = "rejected"
                    THEN /\ DOMAIN slots[i] = {"success", "error"}
                         /\ slots[i].success = FALSE
                         /\ slots[i].error = results[i].reason.message
                    ELSE slots[i] = results[i].value
              /\ ret.value.summary.passedChecks =
                    Cardinality({ i \in 1..4 : slots[i].success })

\* DMARC and DKIM rejected, SPF and MX returned successful reports
C2_Witness ==
    /\ op = "analyzeEmailSecurity" /\ pc = "done"
    /\ results[1].status = "rejected" /\ results[3].status = "rejected"
    /\ ret.value.spf.success /\ ret.value.mx.success
    /\ ret.value.summary.passedChecks = 2

\* C3: overallScore.value is 10 * (sum of score.value) / (sum of score.outOf)
\* rounded to one decimal, over the slots with success = true and a score; it is
\* 0 when no slot contributes, 10 when all four succeed and every score is at its
\* maximum, 0 when all four fail. (value in tenths: n is the nearest tenth, halves up.)
C3_OverallScore ==
    (op = "analyzeEmailSecurity" /\ pc = "done") =>
        LET slots == slotsOf(ret.value)
            counted == { i \in 1..4 : slots[i].success /\ "score" \in DOMAIN slots[i] }
            v(i) == IF i \in counted THEN slots[i].score.value ELSE 0
            o(i) == IF i \in counted THEN slots[i].score.outOf ELSE 0
            total == v(1) + v(2) + v(3) + v(4)
            max == o(1) + o(2) + o(3) + o(4)
            n == ret.value.overallScore.value
        IN /\ ret.value.overallScore.outOf = 10
           /\ IF max = 0 THEN n = 0
              ELSE 2 * max * n - max <= 20 * total /\ 20 * total < 2 * max * n + max
           /\ ((\A i \in 1..4 : slots[i].success)
                 /\ counted # {}
                 /\ (\A i \in counted : slots[i].score.value = 10 * slots[i].score.outOf))
              => n = 100
           /\ (\A i \in 1..4 : ~slots[i].success) => n = 0

\* DMARC failed, SPF succeeded without a score, DKIM 3 of 5 and MX 2 of 3: 6.25 gives 6.3
C3_Witness ==
    /\ op = "analyzeEmailSecurity" /\ pc = "done"
    /\ ~ret.value.dmarc.success /\ ret.value.spf.success
    /\ ret.value.dkim.success /\ ret.value.dkim.score.value = 30
    /\ ret.value.mx.success /\ ret.value.mx.score.value = 20
    /\ ret.value.overallScore.value = 63

\* C4: analyzeSPF, analyzeDKIM, analyzeMX and analyzeEmailSecurity never complete
\* by throwing: whatever the resolver answers (records, nothing, not found, another
\* error) and whatever the probes and the auxiliary verification do, an operation
\* that has not completed is at a step it can take, and one that has completed
\* returned a report.
C4_Total ==
    /\ ret.kind \in {"pending", "return"}
    /\ pc # "done" =>
          CASE op = "analyzeSPF" ->
                  \/ pc \in {"start", "analyze"}
                  \/ /\ pc = "probe"
                     /\ \/ probesStarted = Len(spfResults) /\ probesStarted < Len(testIPs)
                        \/ probesStarted = Len(spfResults) + 1
            [] op = "analyzeDKIM" -> pc \in {"start", "verify"}
            [] op = "analyzeMX" -> pc = "start"
            [] op = "analyzeEmailSecurity" -> pc \in {"start", "settling"}
    /\ pc = "done" =>
          /\ ret.kind = "return"
          /\ IF op = "analyzeEmailSecurity"
             THEN {"overallScore", "summary"} \subseteq DOMAIN ret.value
             ELSE "success" \in DOMAIN ret.value

\* the resolver failed with an error that is neither ENODATA nor ENOTFOUND
C4_Witness ==
    /\ op = "analyzeSPF" /\ pc = "done"
    /\ dns.code = "ETIMEOUT"
    /\ ret.kind = "return" /\ ret.value.error = ErrMessage.ETIMEOUT

\* C5 as stated: every report of analyzeSPF, analyzeDKIM and analyzeMX has no score
\* when success is false and has a score when success is true.
C5_Original ==
    (op \in Analyzers /\ pc = "done") =>
        /\ ~ret.value.success => "score" \notin DOMAIN ret.value
        /\ ret.value.success => "score" \in DOMAIN ret.value

\* C5 (amended): a report with success = false has no score; a report of analyzeDKIM
\* or analyzeMX with success = true has a score; a report of analyzeSPF never has one.
C5_ScorePresence ==
    (op \in Analyzers /\ pc = "done") =>
        /\ ~ret.value.success => "score" \notin DOMAIN ret.value
        /\ (ret.value.success /\ op \in {"analyzeDKIM", "analyzeMX"}) =>
              /\ "score" \in DOMAIN ret.value
              /\ ret.value.score.outOf = IF op = "analyzeDKIM" THEN 5 ELSE 3
        /\ op = "analyzeSPF" => "score" \notin DOMAIN ret.value

\* a complete SPF analysis: success without a score
C5_Witness ==
    /\ op = "analyzeSPF" /\ pc = "done"
    /\ ret.value.success /\ "score" \notin DOMAIN ret.value
    /\ Len(ret.value.ipTestResults) = Len(testIPs)

C6_NoSpf == <<"N", "o", " ", "S", "P", "F", " ", "r", "e", "c", "o", "r", "d", " ", "f", "o", "u", "n", "d">>  \* No SPF record found
C6_Multiple == <<"M", "u", "l", "t", "i", "p", "l", "e", " ", "S", "P", "F", " ", "r", "e", "c", "o", "r", "d", "s">>  \* Multiple SPF records

\* the text of a TXT entry has the prefix v=spf1, whatever the case of its letters
C6_IsSpf(entry) ==
    LET txt == join(entry, << >>)
    IN Len(txt) >= 6 /\ \A k \in 1..6 : toLowerChar(txt[k]) = SpfText.vspf1[k]

\* C6: when the resolver answers (with records, or with ENODATA / ENOTFOUND), the
\* outcome of analyzeSPF follows the number of TXT records with the case-insensitive
\* prefix v=spf1: none gives success = false and an error containing "No SPF record
\* found"; two or more give success = false, an error containing "Multiple SPF
\* records" and a rawRecord containing each of them; success = true needs exactly one.
C6_RecordCount ==
    (op = "analyzeSPF" /\ pc = "done") =>
        LET n == Cardinality({ i \in 1..Len(dns.records) : C6_IsSpf(dns.records[i]) })
            answered == dns.code \in {None, "ENODATA", "ENOTFOUND"}
        IN /\ (answered /\ n = 0) =>
                 ~ret.value.success /\ includes(ret.value.error, C6_NoSpf)
           /\ n >= 2 =>
                 /\ ~ret.value.success /\ includes(ret.value.error, C6_Multiple)
                 /\ \A i \in 1..Len(dns.records) :
                       C6_IsSpf(dns.records[i]) =>
                          includes(ret.value.rawRecord, join(dns.records[i], << >>))
                 /\ Len(ret.value.rawRecord) >= 6 * n + Len(SpfText.bar) * (n - 1)
           /\ ret.value.success => n = 1

\* two SPF records, one of them in upper case
C6_Witness ==
    /\ op = "analyzeSPF" /\ pc = "done"
    /\ dns.records = <<TxtEntry.spf_soft, TxtEntry.spf_upper>>
    /\ ret.value.error = ErrorText.MultipleSpf

\* the record of a successful DKIM report has no p= tag
C9_NoKeyTag == ret.value.success /\ ~includes(ret.value.rawRecord, DkimText.p)

\* C9 as stated: a DKIM-shaped record without any p= tag gives the "No public key
\* found" warning and a score value of at most 1, whatever its other tags.
C9_Original ==
    (op = "analyzeDKIM" /\ pc = "done" /\ C9_NoKeyTag) =>
        /\ arrayIncludes(ret.value.warnings, W_NoPublicKey)
        /\ ret.value.score.value <= 10

\* C9 (amended): a DKIM-shaped record without any p= tag gives the "No public key
\* found" warning and no points for the key or its length; its score value is 1
\* plus the points of its k=, h= and s= tags and of a passing auxiliary
\* verification, so at most 4.5, and at most 1 when it has none of these.
C9_NoKeyPoints ==
    (op = "analyzeDKIM" /\ pc = "done" /\ C9_NoKeyTag) =>
        LET record == ret.value.rawRecord
            k == IF includes(record, DkimText.k_rsa) THEN 10
                 ELSE IF includes(record, DkimText.k_ed25519) THEN 15 ELSE 0
            h == IF includes(record, DkimText.h_sha256) THEN 10
                 ELSE IF includes(record, DkimText.h_sha1) THEN 5 ELSE 0
            sv == IF includes(record, DkimText.s_email) THEN 5 ELSE 0
            passed == arrayIncludes(ret.value.score.details, D_VerifyPassed)
        IN /\ arrayIncludes(ret.value.warnings, W_NoPublicKey)
           /\ ~arrayIncludes(ret.value.score.details, D_KeyPresent)
           /\ ~arrayIncludes(ret.value.score.details, D_StrongKey)
           /\ ret.value.score.value = 10 + k + h + sv + (IF passed THEN 5 ELSE 0)
           /\ ret.value.score.value <= 45
           /\ (k + h + sv = 0 /\ ~passed) => ret.value.score.value <= 10

\* v=DKIM1; k=ed25519; h=sha256; s=email without a key, the verification passing: 4.5
C9_Witness ==
    /\ op = "analyzeDKIM" /\ pc = "done" /\ C9_NoKeyTag
    /\ arrayIncludes(ret.value.warnings, W_NoPublicKey)
    /\ ret.value.score.value = 45
    /\ ret.value.score.level = "Excellent"

\* the level of the four bands for value (in tenths) out of outOf (in points)
C10_Band(value, outOf) ==
    IF value >= 8 * outOf THEN "Excellent"
    ELSE IF value >= 6 * outOf THEN "Good"
    ELSE IF value >= 4 * outOf THEN "Fair"
    ELSE "Poor"

C10_Banded(score) == score.level = C10_Band(score.value, score.outOf)

\* C10: every score of analyzeDKIM, of analyzeMX and of analyzeEmailSecurity has
\* the level of its value/outOf: Excellent from 80%, Good from 60%, Fair from 40%,
\* Poor below.
C10_LevelBands ==
    pc = "done" =>
        /\ (op \in {"analyzeDKIM", "analyzeMX"} /\ ret.value.success) =>
              /\ C10_Banded(ret.value.score)
              /\ 0 <= ret.value.score.value
              /\ ret.value.score.value <= 10 * ret.value.score.outOf
        /\ op = "analyzeEmailSecurity" =>
              /\ C10_Banded(ret.value.overallScore)
              /\ \A r \in {ret.value.dkim, ret.value.mx} :
                    (r.success /\ "score" \in DOMAIN r) => C10_Banded(r.score)

\* two MX hosts of one priority: 2 of 3, Good
C10_Witness ==
    /\ op = "analyzeMX" /\ pc = "done"
    /\ ret.value.success /\ Len(ret.value.records) = 2
    /\ ret.value.score.value = 20 /\ ret.value.score.level = "Good"

\* the resolver answered analyzeMX with records, and the report is there
C11_MxDone == op = "analyzeMX" /\ pc = "done" /\ dns.code = None /\ Len(dns.records) > 0

\* C11: a record set that is a single null MX (exchange "." or empty, priority 0
\* for example) gives score value 0, the "explicitly rejects email" entry as the
\* only score detail, and the null-MX warning as the only warning.
C11_SoleNullMx ==
    (C11_MxDone /\ Len(dns.records) = 1
        /\ dns.records[1].exchange \in {MxText.dot, << >>}) =>
        /\ ret.value.success
        /\ ret.value.score.value = 0
        /\ ret.value.score.details =
              <<Msg("Null MX record - domain explicitly rejects email")>>
        /\ ret.value.warnings =
              <<Msg("Null MX record detected - this domain does not accept email")>>

\* C12: a record set in which two records share a priority gets the same-priority
\* warning and a score value below 3; a score value of 3 is reached only with at
\* least two records whose priorities are pairwise distinct.
C12_SamePriority ==
    C11_MxDone =>
        LET records == dns.records
            shared == \E i, j \in 1..Len(records) :
                         i # j /\ records[i].priority = records[j].priority
        IN /\ shared =>
                 /\ arrayIncludes(ret.value.warnings,
                                  Msg("Some MX records have the same priority"))
                 /\ ret.value.score.value < 30
           /\ ret.value.score.value = 30 => (Len(records) >= 2 /\ ~shared)

\* three records, two of them of priority 10
C12_Witness ==
    /\ C11_MxDone /\ Len(dns.records) = 3
    /\ dns.records[1].priority = 10 /\ dns.records[2].priority = 20
    /\ dns.records[3].priority = 10
    /\ ret.value.score.value = 20

\* the number of places of a sequence that hold r
C13_Count(records, r) == Cardinality({ i \in 1..Len(records) : records[i] = r })

\* C13: the records of a successful analyzeMX report are the records the resolver
\* returned, each as many times, in the order of non-decreasing priority.
C13_SortedRecords ==
    (C11_MxDone /\ ret.value.success) =>
        LET sorted == ret.value.records
        IN /\ Len(sorted) = Len(dns.records)
           /\ \A r \in MxPool : C13_Count(sorted, r) = C13_Count(dns.records, r)
           /\ \A i \in 1..(Len(sorted) - 1) : sorted[i].priority <= sorted[i + 1].priority

\* the resolver returned priority 60 before priority 10
C13_Witness ==
    /\ C11_MxDone /\ Len(dns.records) >= 2
    /\ dns.records[1].priority = 60 /\ dns.records[2].priority = 10
    /\ ret.value.success /\ ret.value.records[1].priority = 10

----------------------------------------------------------------------------
(* Claims about _analyzeSpfRecord: the policy mechanism *)

\* the four graded policy recommendations, for +all, ?all, ~all and -all
C16_Graded ==
    { Msg("Replace \"+all\" with \"-all\" for strict policy or \"~all\" for gradual deployment."),
      Msg("Consider using \"~all\" (softfail) or \"-all\" (fail) for better security."),
      Msg("Good: Using \"~all\" allows gradual SPF deployment. Consider \"-all\" for stricter security once confident."),
      Msg("Excellent: Using \"-all\" provides the strongest SPF protection.") }

\* the places of the mechanisms whose lowercased text contains all
C16_Places(tokens) ==
    { i \in 1..Len(tokens) :
        \E k \in 1..(Len(tokens[i]) - 2) :
            /\ toLowerChar(tokens[i][k]) = "a"
            /\ toLowerChar(tokens[i][k + 1]) = "l"
            /\ toLowerChar(tokens[i][k + 2]) = "l" }

\* the policy is the first mechanism whose lowercased text contains all, and
\* without one the missing-terminator warning and recommendation are emitted
C16_FirstAll ==
    (op = "_analyzeSpfRecord" /\ pc = "done") =>
        LET tokens == Tail(splitWs(spfRecord))
            places == C16_Places(tokens)
        IN IF places = {}
           THEN /\ analysisOut.policy = SpfText.no_policy
                /\ arrayIncludes(analysisOut.warnings, W_NoAll)
                /\ \E i \in DOMAIN analysisOut.recommendations :
                      analysisOut.recommendations[i] \notin C16_Graded
           ELSE /\ analysisOut.policy \in { tokens[i] : i \in places }
                /\ \A i \in places :
                      tokens[i] = analysisOut.policy \/
                      \E j \in places : j < i /\ tokens[j] = analysisOut.policy
                /\ ~arrayIncludes(analysisOut.warnings, W_NoAll)

\* C16: the policy mechanism is the first mechanism whose lowercased text contains
\* all; without one the missing-terminator warning and recommendation are emitted;
\* with one, exactly one of the four graded policy messages is emitted.
C16_PolicyGraded ==
    /\ C16_FirstAll
    /\ (op = "_analyzeSpfRecord" /\ pc = "done"
          /\ C16_Places(Tail(splitWs(spfRecord))) # {}) =>
          Cardinality({ i \in DOMAIN analysisOut.recommendations :
                          analysisOut.recommendations[i] \in C16_Graded }) = 1

----------------------------------------------------------------------------
(* Claims about the rate limiter: the sweep, and what a call leaves alone *)

\* C19: however the sweep falls between the calls, it deletes only entries whose
\* window has expired (now > resetTime) and leaves the others as they are, and
\* every call returns what it returns in the run of the same calls without a sweep.
C19_SweepTransparent ==
    [][ /\ \A k \in DOMAIN rateLimitStore \ DOMAIN rateLimitStore' :
              now > rateLimitStore[k].resetTime
        /\ rlWindow' = rlWindow =>
              \A k \in DOMAIN rateLimitStore' : rateLimitStore'[k] = rateLimitStore[k]
        /\ rlLast'.ret = rlLast'.plain ]_vars

\* the sweep deleted the entry of 10.0.0.1 and kept the unexpired one of the other
\* key; the next call of 10.0.0.1 opened a window as it does without a sweep
C19_Witness ==
    /\ nextSweep > sweepInterval
    /\ rlLast.ip = "10.0.0.1" /\ rlLast.at >= sweepInterval
    /\ rlLast.entry.count = 1 /\ rlShadow["10.0.0.1"] = rlLast.entry
    /\ "unknown" \in DOMAIN rateLimitStore
    /\ rateLimitStore["unknown"].resetTime >= sweepInterval

\* C20: every ledger entry has a count from 1 to 10; a denied call leaves the
\* whole ledger as it was; a call changes no entry but that of its own address.
C20_Frame ==
    [][ /\ \A k \in DOMAIN rateLimitStore' : rateLimitStore'[k].count \in 1..limit
        /\ rlWindow' # rlWindow =>
              /\ ~rlLast'.ret.allowed => rateLimitStore' = rateLimitStore
              /\ \A k \in DOMAIN rateLimitStore \ {rlLast'.ip} :
                    k \in DOMAIN rateLimitStore' /\ rateLimitStore'[k] = rateLimitStore[k] ]_vars

\* a call of 10.0.0.1 was denied at the limit while the other key has its own entry
C20_Witness ==
    /\ rlLast.ip = "10.0.0.1" /\ ~rlLast.ret.allowed
    /\ rateLimitStore["10.0.0.1"].count = limit
    /\ "unknown" \in DOMAIN rateLimitStore
    /\ rateLimitStore["unknown"].count \in 2..(limit - 1)

----------------------------------------------------------------------------
(* Claims about analyzeSPF: the probes *)

\* analyzeSPF has reached the probes
C14_Probing == op = "analyzeSPF" /\ spfRecord # << >>

\* C14: a run of analyzeSPF that reaches the probes collects one entry for each
\* of the four test addresses, the i-th for the i-th address, whatever each probe
\* comes to; a probe that fails leaves an entry with result "error" and no
\* details, the probes after it still run, and the report has success = true and
\* the four entries as ipTestResults.
C14_FourEntries ==
    C14_Probing =>
        /\ Len(spfResults) <= Len(testIPs)
        /\ \A i \in 1..Len(spfResults) :
              /\ spfResults[i].ip = testIPs[i]
              /\ spfResults[i].result \in {"pass", "softfail", "error"}
              /\ spfResults[i].result = "error" <=> spfResults[i].details = Null
        /\ pc \in {"analyze", "done"} => Len(spfResults) = Len(testIPs)
        /\ pc = "done" =>
              /\ ret.kind = "return" /\ ret.value.success
              /\ ret.value.ipTestResults = spfResults
              /\ Len(ret.value.ipTestResults) = 4

\* the second and the fourth probe failed, the third passed
C14_Witness ==
    /\ C14_Probing /\ pc = "done" /\ ret.value.success
    /\ ret.value.ipTestResults[2].result = "error"
    /\ ret.value.ipTestResults[3].result = "pass"
    /\ ret.value.ipTestResults[4].result = "error"
    /\ ret.value.mailauthResult.status = "softfail"

\* C17 as stated: the four probes are launched as concurrent tasks and joined, so
\* that all four have been started by the time the first of them completes (and a
\* later probe is running while an earlier one has not completed).
C17_Original ==
    (C14_Probing /\ Len(spfResults) >= 1) => probesStarted = Len(testIPs)

\* C17 (amended): the four probes run one after another, each awaited before the
\* next is started, so that at most one probe is running at any time; every probe
\* runs to completion or failure before the report is built.
C17_Sequential ==
    C14_Probing =>
        /\ probesStarted - Len(spfResults) \in {0, 1}
        /\ probesStarted <= Len(testIPs)
        /\ pc \in {"analyze", "done"} =>
              probesStarted = Len(testIPs) /\ Len(spfResults) = Len(testIPs)

\* the third probe is running, the first failed and the second has completed
C17_Witness ==
    /\ C14_Probing /\ pc = "probe"
    /\ probesStarted = 3 /\ Len(spfResults) = 2
    /\ spfResults[1].result = "error"

----------------------------------------------------------------------------
(* Claims about analyzeEmailSecurity: the priority recommendations *)

\* the five fixed texts, in protocol order: DMARC (critical, upgrade), SPF, DKIM, MX
C15_Items ==
    << Msg("CRITICAL: Set up DMARC policy to prevent email spoofing"),
       Msg("IMPORTANT: Upgrade DMARC policy from \"none\" to \"quarantine\" or \"reject\""),
       Msg("CRITICAL: Configure SPF record to authorize mail servers"),
       Msg("IMPORTANT: Enable DKIM signing for email authentication"),
       Msg("CRITICAL: Configure MX records for email delivery") >>

C15_AggDone == op = "analyzeEmailSecurity" /\ pc = "done" /\ ret.kind = "return"

\* C15: in every aggregate report summary.priorityRecommendations holds only the
\* five fixed texts, in the order DMARC, SPF, DKIM, MX and at most one per protocol;
\* the critical DMARC, SPF or MX item is there exactly when that slot has
\* success = false, the important DKIM item exactly when the DKIM slot has
\* success = false, the important DMARC-upgrade item exactly when the DMARC slot
\* succeeded with parsed.p = none; no score enters any of these conditions.
C15_PriorityRecommendations ==
    C15_AggDone =>
        LET slots == slotsOf(ret.value)
            list == ret.value.summary.priorityRecommendations
            has(k) == \E i \in 1..Len(list) : list[i] = C15_Items[k]
            upgrade == /\ slots[1].success
                       /\ "parsed" \in DOMAIN slots[1]
                       /\ slots[1].parsed.p = "none"
        IN /\ Len(list) <= 4
           /\ \A i \in 1..Len(list) : \E k \in 1..5 : list[i] = C15_Items[k]
           /\ \A i, j \in 1..Len(list) : \A k, l \in 1..5 :
                 (i < j /\ list[i] = C15_Items[k] /\ list[j] = C15_Items[l]) => k < l
           /\ ~(has(1) /\ has(2))
           /\ has(1) <=> ~slots[1].success
           /\ has(2) <=> upgrade
           /\ has(3) <=> ~slots[2].success
           /\ has(4) <=> ~slots[3].success
           /\ has(5) <=> ~slots[4].success

\* DMARC succeeded with p=none, SPF rejected, DKIM failed, MX succeeded with full
\* marks: three items, the upgrade first
C15_Witness ==
    /\ C15_AggDone
    /\ ret.value.dmarc.success /\ ret.value.dmarc.parsed.p = "none"
    /\ results[2].status = "rejected"
    /\ ~ret.value.dkim.success
    /\ ret.value.mx.success /\ ret.value.mx.score.value = 30
    /\ ret.value.summary.priorityRecommendations =
          <<C15_Items[2], C15_Items[3], C15_Items[4]>>

----------------------------------------------------------------------------
(* Claims about analyzeDKIM: records that are not DKIM-shaped *)

\* the lookup answered with records, none of which holds v=DKIM1, k=rsa or p=
C18_Unshaped ==
    /\ op = "analyzeDKIM" /\ pc = "done"
    /\ dns.code = None /\ Len(dns.records) > 0
    /\ \A i \in 1..Len(dns.records) : ~isDkimShaped(flatten(dns.records)[i])

\* what analyzeDKIM returns then: find() yields undefined and the report is the
\* one of the absent record, without score or warning
C18_ReportedNotFound ==
    C18_Unshaped => ret = Return(dkimNotFound(Domain, Selector))

\* C18: when the lookup returns records none of which contains v=DKIM1, k=rsa or
\* p=, analyzeDKIM reports an invalid-format record: score 0 out of 5 and the
\* invalid-format warning, a report other than the "record not found for
\* selector" one.
C18_InvalidFormat ==
    C18_Unshaped =>
        /\ ret.kind = "return"
        /\ ret.value # dkimNotFound(Domain, Selector)
        /\ "score" \in DOMAIN ret.value
        /\ ret.value.score.value = 0 /\ ret.value.score.outOf = 5
        /\ "warnings" \in DOMAIN ret.value
        /\ \E i \in 1..Len(ret.value.warnings) :
              ret.value.warnings[i] = Msg("Invalid DKIM record format")

====
